---- MODULE Spec2Model ----
(***************************************************************************)
(* Model of the AI-attribution and aggregation engine of the client-side   *)
(* GitHub module (detectAITool, extractClaudeModel, fetchAILabeledPRs,     *)
(* fetchCommitDataClient).                                                 *)
(*                                                                         *)
(* The specifications share the variables:                                 *)
(*   Spec        one call of fetchCommitDataClient: commit pages arrive,   *)
(*               the detection loop runs, PR lookups produce label         *)
(*               results, the enrichment and aggregation build the         *)
(*               LeaderboardData;                                          *)
(*   SpecTwice   Spec followed by a second invocation on the same input;   *)
(*   SpecDetect  detectAITool applied to commit messages;                  *)
(*   SpecPct     the aiPercentage expression applied to commit counts;     *)
(*   SpecPool    one call of fetchCommitDataClient seen from its requests: *)
(*               the count phase, the worker pool that pages through the   *)
(*               repositories, the progress events;                        *)
(*   SpecCount   SpecPool with count requests that also answer with a       *)
(*               non-success response;                                     *)
(*   SpecWindow  SpecPool called with a dateRange argument;                 *)
(*   SpecPRs     the PR phase of one call seen from its requests: the      *)
(*               label searches and the merge-commit lookups;              *)
(*   SpecLabels  the handlers of the label configuration panel;            *)
(*   SpecPages   the pagination of SpecPool up to the page limit, and      *)
(*               FairSpecPages, in which every request is answered.        *)
(***************************************************************************)
EXTENDS Integers, Sequences, FiniteSets, TLC

VARIABLES
    phase,                \* position of the call / of the specification
    allCommits,           \* fetchCommitDataClient: allCommits
    aiCommitsWithTool,    \* fetchCommitDataClient: aiCommitsWithTool
    globalToolBreakdown,  \* fetchCommitDataClient: globalToolBreakdown
    globalModelBreakdown, \* fetchCommitDataClient: globalModelBreakdown
    seenPRs,              \* fetchAILabeledPRs: seenPRs
    prResults,            \* fetchAILabeledPRs: results
    data,                 \* the LeaderboardData returned, NoData before
    message,              \* SpecDetect: the parts of the message classified
    detection,            \* SpecDetect: what detectAITool returned
    pctIn,                \* SpecPct: aiCount and totalCommits
    pctOut,               \* SpecPct: aiPercentage
    repositories,         \* SpecPool: the repositories argument (displayNames)
    feeds,                \* SpecPool: what the commit API answers, per repository
    countInFlight,        \* SpecPool: count requests not yet answered
    counts,               \* SpecPool: the Promise.all of the count requests
    totalCommitsEstimate, \* SpecPool: totalCommitsEstimate
    nextIndex,            \* SpecPool: runWithConcurrency's nextIndex
    workerLoops,          \* runWithConcurrency: per workerLoop, its item (and page)
    activeRepoNames,      \* SpecPool: activeRepoNames
    completedRepos,       \* SpecPool: completedRepos
    requested,            \* SpecPool: per repository, the pages requested
    fetchCalls,           \* SpecPool: the number of fetch() calls made
    progress,             \* SpecPool: the phases of the progress events emitted
    pulls,                \* SpecPRs: the merged pull requests the search API knows
    searchAt,             \* SpecPRs: the search (repository, label) being made
    items,                \* SpecPRs: the items of the search page being processed
    resultKeys,           \* SpecPRs: per result of fetchAILabeledPRs, its prKey
    dataAgain,            \* SpecTwice: the LeaderboardData of the second invocation
    dateRange,            \* SpecWindow: startDate and endDate of the call, in days
    labelConfig,          \* SpecLabels: PRLabelConfig's labelConfig prop
    newLabel,             \* SpecLabels: PRLabelConfig's newLabel state
    newLabelTool,         \* SpecLabels: PRLabelConfig's newLabelTool state
    labelOp               \* SpecLabels: the handler that ran last, and its argument

prVars == <<pulls, searchAt, items, resultKeys>>

otherVars == <<dataAgain, dateRange, labelConfig, newLabel, newLabelTool, labelOp>>

poolVars == <<repositories, feeds, countInFlight, counts, totalCommitsEstimate, nextIndex,
              workerLoops, activeRepoNames, completedRepos, requested, fetchCalls,
              progress, prVars, otherVars>>

vars == <<phase, allCommits, aiCommitsWithTool, globalToolBreakdown,
          globalModelBreakdown, seenPRs, prResults, data,
          message, detection, pctIn, pctOut, poolVars>>

\* totalCommitsEstimate: null.
NoEstimate == -1

\* The Promise.all of the count requests: the sum of the counts answered, or
\* rejected (the counts are then dropped).
NoneCounted == [sum |-> 0, rejected |-> FALSE]

\* The worker pool before it is used.
PoolIdle ==
    /\ repositories = <<>>
    /\ feeds = <<>>
    /\ countInFlight = 0
    /\ counts = NoneCounted
    /\ totalCommitsEstimate = NoEstimate
    /\ nextIndex = 0
    /\ workerLoops = <<>>
    /\ activeRepoNames = {}
    /\ completedRepos = 0
    /\ requested = <<>>
    /\ fetchCalls = 0
    /\ progress = <<>>
    /\ pulls = <<>>
    /\ searchAt = 0
    /\ items = <<>>
    /\ resultKeys = <<>>

(***************************************************************************)
(* Bounds of the model.                                                    *)
(***************************************************************************)
\* The responses one call processes: commit pages and pull-request lookups.
MaxResponses == 3
MaxTrailers == 2
MaxPctTotal == 40

(***************************************************************************)
(* Values standing for JavaScript's null / undefined.                      *)
(***************************************************************************)
Null == "null"
Undefined == "undefined"
NoData == [returned |-> FALSE]

\* The second invocation, the dateRange argument and the label configuration
\* panel where a specification does not use them: no second invocation, no
\* dateRange argument (the last 7 days), the panel before its first render.
NoLabelOp == [op |-> "none", label |-> <<>>]

LastSevenDays == [start |-> -7, end |-> 0]

OtherIdle ==
    /\ dataAgain = NoData
    /\ dateRange = LastSevenDays
    /\ labelConfig = [labels |-> <<>>, labelScanRepos |-> <<>>]
    /\ newLabel = <<>>
    /\ newLabelTool = "claude-generated"
    /\ labelOp = NoLabelOp
\* A null merge_commit_sha.
NoSha == 0

(***************************************************************************)
(* Commit messages.  A message is a sequence of tokens; each token stands  *)
(* for the character string written in it, and the tokens are chosen so    *)
(* that every occurrence of a searched pattern starts and ends at a token  *)
(* boundary.                                                               *)
(***************************************************************************)
ToLowerTable ==
    [ t \in {"Co-authored-by:", "Claude", "Opus", "Sonnet", "Haiku", "Copilot",
             "Cursor", "Generated with", "[Claude Code]", "Code", "Alice",
             "Fix bug", "Use", "@ANTHROPIC.COM>"} |->
        CASE t = "Co-authored-by:" -> "co-authored-by:"
          [] t = "Claude"          -> "claude"
          [] t = "Opus"            -> "opus"
          [] t = "Sonnet"          -> "sonnet"
          [] t = "Haiku"           -> "haiku"
          [] t = "Copilot"         -> "copilot"
          [] t = "Cursor"          -> "cursor"
          [] t = "Generated with"  -> "generated with"
          [] t = "[Claude Code]"   -> "[claude code]"
          [] t = "Code"            -> "code"
          [] t = "Alice"           -> "alice"
          [] t = "Fix bug"         -> "fix bug"
          [] t = "Use"             -> "use"
          [] t = "@ANTHROPIC.COM>" -> "@anthropic.com>" ]

\* String.prototype.toLowerCase on one token, and on a message.
LowerTok(t) == IF t \in DOMAIN ToLowerTable THEN ToLowerTable[t] ELSE t

toLowerCase(m) == [i \in 1..Len(m) |-> LowerTok(m[i])]

\* String.prototype.includes: pat occurs in m as a contiguous run.
includes(m, pat) ==
    \E i \in 1..(Len(m) - Len(pat) + 1) :
        \A k \in 1..Len(pat) : m[i + k - 1] = pat[k]

\* Character classes of the regular expressions: the tokens that are white
\* space, that hold a "<", that hold a ">".
IsSpace(t) == t \in {" ", "\n"}
HasLt == {"<"}
HasGt == {"@anthropic.com>", "@cursor.com>", "@users.noreply.github.com>",
          "@ANTHROPIC.COM>"}

\* /co-authored-by:\s*NAME/i anchored at position i: the position of NAME.
RECURSIVE SkipSpace(_, _)
SkipSpace(m, j) ==
    IF j <= Len(m) /\ IsSpace(m[j]) THEN SkipSpace(m, j + 1) ELSE j

\* A run [^c]* from position j followed by the token `stop` at position k.
RunThenAt(m, j, k, excluded, stop) ==
    /\ k >= j /\ k <= Len(m)
    /\ LowerTok(m[k]) = stop
    /\ \A x \in j..(k - 1) : m[x] \notin excluded

\* /co-authored-by:\s*claude[^<]*<[^>]*@anthropic\.com>/i
claudeCoAuthorRegex(m) ==
    \E i \in 1..Len(m) :
        /\ LowerTok(m[i]) = "co-authored-by:"
        /\ LET j == SkipSpace(m, i + 1) IN
            /\ j <= Len(m) /\ LowerTok(m[j]) = "claude"
            /\ \E k \in (j + 1)..Len(m) :
                /\ RunThenAt(m, j + 1, k, HasLt, "<")
                /\ \E l \in (k + 1)..Len(m) :
                    RunThenAt(m, k + 1, l, HasGt, "@anthropic.com>")

\* /co-authored-by:\s*copilot\s*</i
copilotCoAuthorRegex(m) ==
    \E i \in 1..Len(m) :
        /\ LowerTok(m[i]) = "co-authored-by:"
        /\ LET j == SkipSpace(m, i + 1) IN
            /\ j <= Len(m) /\ LowerTok(m[j]) = "copilot"
            /\ LET k == SkipSpace(m, j + 1) IN k <= Len(m) /\ m[k] = "<"

\* /co-authored-by:\s*cursor\s*<[^>]*@cursor\.com>/i
cursorCoAuthorRegex(m) ==
    \E i \in 1..Len(m) :
        /\ LowerTok(m[i]) = "co-authored-by:"
        /\ LET j == SkipSpace(m, i + 1) IN
            /\ j <= Len(m) /\ LowerTok(m[j]) = "cursor"
            /\ LET k == SkipSpace(m, j + 1) IN
                /\ k <= Len(m) /\ m[k] = "<"
                /\ \E l \in (k + 1)..Len(m) :
                    RunThenAt(m, k + 1, l, HasGt, "@cursor.com>")

(***************************************************************************)
(* extractClaudeModel and detectAITool.                                    *)
(***************************************************************************)
extractClaudeModel(m) ==
    LET lowerMessage == toLowerCase(m) IN
    IF includes(lowerMessage, <<"claude", " ", "opus">>) THEN "opus"
    ELSE IF includes(lowerMessage, <<"claude", " ", "sonnet">>) THEN "sonnet"
    ELSE IF includes(lowerMessage, <<"claude", " ", "haiku">>) THEN "haiku"
    ELSE "unknown"

\* The footer test of rule 2.
claudeGeneratedFooter(m) ==
    LET lowerMessage == toLowerCase(m) IN
    \/ includes(lowerMessage, <<"generated with", " ", "[claude code]">>)
    \/ includes(lowerMessage, <<"generated with", " ", "claude", " ", "code">>)

\* NoDetection stands for the null result; claudeModel is Undefined where the
\* code returns an object without that property.
NoDetection == [aiTool |-> Null, claudeModel |-> Undefined]

\* detectAITool with the Copilot rule tried before the Claude rules.
detectAIToolCopilotFirst(m) ==
    IF copilotCoAuthorRegex(m)
        THEN [aiTool |-> "copilot", claudeModel |-> Undefined]
    ELSE IF claudeCoAuthorRegex(m)
        THEN [aiTool |-> "claude-coauthor", claudeModel |-> extractClaudeModel(m)]
    ELSE IF claudeGeneratedFooter(m)
        THEN [aiTool |-> "claude-generated", claudeModel |-> "unknown"]
    ELSE IF cursorCoAuthorRegex(m)
        THEN [aiTool |-> "cursor", claudeModel |-> Undefined]
    ELSE NoDetection

detectAITool(m) ==
    IF claudeCoAuthorRegex(m)
        THEN [aiTool |-> "claude-coauthor", claudeModel |-> extractClaudeModel(m)]
    ELSE IF claudeGeneratedFooter(m)
        THEN [aiTool |-> "claude-generated", claudeModel |-> "unknown"]
    ELSE IF copilotCoAuthorRegex(m)
        THEN [aiTool |-> "copilot", claudeModel |-> Undefined]
    ELSE IF cursorCoAuthorRegex(m)
        THEN [aiTool |-> "cursor", claudeModel |-> Undefined]
    ELSE NoDetection

(***************************************************************************)
(* The messages the model classifies: a body followed by trailers.  A      *)
(* trailer is "Co-authored-by:" name text "<" local domain; `text` is what *)
(* stands between the name and the e-mail address.                         *)
(***************************************************************************)
Bodies ==
    { <<"Fix bug">>,
      <<"Generated with", " ", "[Claude Code]">>,
      <<"generated with", " ", "claude", " ", "code">>,
      <<"Use", " ", "Claude", " ", "Sonnet">>,
      <<"Use", " ", "claude", " ", "opus">> }

Trailers ==
    { [key |-> "Co-authored-by:", name |-> "Claude", text |-> <<" ">>,
       domain |-> "@anthropic.com>"],
      [key |-> "Co-authored-by:", name |-> "Claude",
       text |-> <<" ", "Opus", " ", "4.5", " ">>, domain |-> "@anthropic.com>"],
      [key |-> "co-authored-by:", name |-> "claude",
       text |-> <<" ", "sonnet", " ", "4", " ">>, domain |-> "@ANTHROPIC.COM>"],
      [key |-> "Co-authored-by:", name |-> "Claude",
       text |-> <<" ", "Haiku", " ">>, domain |-> "@anthropic.com>"],
      [key |-> "Co-authored-by:", name |-> "Claude",
       text |-> <<" ", "3", " ", "Opus", " ">>, domain |-> "@anthropic.com>"],
      [key |-> "Co-authored-by:", name |-> "Claude", text |-> <<" ">>,
       domain |-> "@users.noreply.github.com>"],
      [key |-> "Co-authored-by:", name |-> "Copilot", text |-> <<" ">>,
       domain |-> "@users.noreply.github.com>"],
      [key |-> "Co-authored-by:", name |-> "Copilot", text |-> <<>>,
       domain |-> "@anthropic.com>"],
      [key |-> "Co-authored-by:", name |-> "Cursor", text |-> <<" ">>,
       domain |-> "@cursor.com>"],
      [key |-> "Co-authored-by:", name |-> "Cursor", text |-> <<" ">>,
       domain |-> "@users.noreply.github.com>"],
      [key |-> "Co-authored-by:", name |-> "Alice", text |-> <<" ">>,
       domain |-> "@users.noreply.github.com>"] }

TrailerText(t) ==
    <<"\n", t.key, " ", t.name>> \o t.text \o <<"<", "noreply", t.domain>>

RECURSIVE TrailersText(_)
TrailersText(ts) ==
    IF ts = <<>> THEN <<>> ELSE TrailerText(Head(ts)) \o TrailersText(Tail(ts))

\* The message text of a body and a list of trailers.
MessageText(msg) ==
    IF msg.trailers = <<>> THEN msg.body
    ELSE msg.body \o <<"\n">> \o TrailersText(msg.trailers)

TrailerLists == UNION { [1..n -> Trailers] : n \in 0..MaxTrailers }

Messages == [body : Bodies, trailers : TrailerLists]

(***************************************************************************)
(* IEEE 754 binary64 arithmetic, as far as the aiPercentage expression     *)
(* Math.round((aiCount / totalCommits) * 100) needs it.  A significand is  *)
(* a 53-bit integer, too wide for one machine integer here, so wide        *)
(* integers are sequences of 10-bit limbs, least significant limb first.   *)
(* A positive double is [mant, exp]: 2^52 <= mant < 2^53 and the value is  *)
(* mant * 2^(exp - 52).                                                    *)
(***************************************************************************)
MantBits == 53
LimbBits == 10
Base == 2 ^ LimbBits

\* x * k + carry for a small k.
RECURSIVE BigTimesSmall(_, _, _)
BigTimesSmall(x, k, carry) ==
    IF x = <<>>
        THEN IF carry = 0 THEN <<>>
             ELSE <<carry % Base>> \o BigTimesSmall(<<>>, k, carry \div Base)
    ELSE LET v == Head(x) * k + carry
         IN  <<v % Base>> \o BigTimesSmall(Tail(x), k, v \div Base)

\* x * 2^n.
BigShiftLeft(x, n) ==
    [i \in 1..(n \div LimbBits) |-> 0] \o BigTimesSmall(x, 2 ^ (n % LimbBits), 0)

\* floor(x / 2^n).
BigShiftRight(x, n) ==
    LET y == SubSeq(x, (n \div LimbBits) + 1, Len(x))
        d == n % LimbBits
    IN  [i \in 1..Len(y) |->
            (y[i] \div (2 ^ d))
            + (IF i < Len(y) THEN (y[i + 1] % (2 ^ d)) * (2 ^ (LimbBits - d)) ELSE 0)]

\* Bit n of x (bit 0 is the least significant).
BigBit(x, n) ==
    LET i == (n \div LimbBits) + 1
    IN  IF i > Len(x) THEN 0 ELSE (x[i] \div (2 ^ (n % LimbBits))) % 2

\* Short division by a small t, from the most significant limb down.
RECURSIVE BigDivSmall(_, _, _)
BigDivSmall(x, t, r) ==
    IF x = <<>> THEN [q |-> <<>>, rem |-> r]
    ELSE LET n == Len(x)
             cur == r * Base + x[n]
             low == BigDivSmall(SubSeq(x, 1, n - 1), t, cur % t)
         IN  [q |-> Append(low.q, cur \div t), rem |-> low.rem]

\* x + 1.
RECURSIVE BigIncrement(_)
BigIncrement(x) ==
    IF x = <<>> THEN <<1>>
    ELSE IF Head(x) + 1 < Base THEN <<Head(x) + 1>> \o Tail(x)
    ELSE <<0>> \o BigIncrement(Tail(x))

\* The value of a wide integer known to be small.
RECURSIVE BigToInt(_)
BigToInt(x) == IF x = <<>> THEN 0 ELSE Head(x) + Base * BigToInt(Tail(x))

\* Round to nearest, ties to even: q is the truncated significand (53 bits),
\* `more` compares the discarded part with one half (-1 below, 0 equal, 1
\* above), exp is the exponent of the leading bit.
RoundToDouble(q, more, exp) ==
    LET up == more > 0 \/ (more = 0 /\ BigBit(q, 0) = 1)
        inc == BigIncrement(q)
    IN  IF ~up THEN [mant |-> q, exp |-> exp]
        ELSE IF BigBit(inc, MantBits) = 1
            THEN [mant |-> BigShiftRight(inc, 1), exp |-> exp + 1]
        ELSE [mant |-> inc, exp |-> exp]

Compare(x, y) == IF x < y THEN -1 ELSE IF x = y THEN 0 ELSE 1

\* The exponent of a/t: the e with 2^e <= a/t < 2^(e+1), for 1 <= a <= t.
RECURSIVE ExponentOf(_, _, _)
ExponentOf(r, t, e) == IF r >= t THEN e ELSE ExponentOf(2 * r, t, e - 1)

\* a / t for integers 1 <= a <= t.
DoubleDivide(a, t) ==
    LET e == ExponentOf(a, t, 0)
        d == BigDivSmall(BigShiftLeft(<<a>>, (MantBits - 1) - e), t, 0)
    IN  RoundToDouble(SubSeq(d.q, 1, 6), Compare(2 * d.rem, t), e)

\* The number of bits of x: the position of its leading 1.
BigBitLength(x) ==
    LET n == Len(x)
        top == x[n]
    IN  LimbBits * (n - 1)
        + CHOOSE b \in 1..LimbBits : 2 ^ (b - 1) <= top /\ top < 2 ^ b

\* Round the product p (a wide integer of 53 bits or more) of exponent exp.
RoundProduct(p, exp) ==
    LET drop == BigBitLength(p) - MantBits
        lost == p[1] % (2 ^ drop)
    IN  IF drop = 0 THEN [mant |-> SubSeq(p, 1, 6), exp |-> exp]
        ELSE RoundToDouble(SubSeq(BigShiftRight(p, drop), 1, 6),
                           Compare(2 * lost, 2 ^ drop), exp + drop)

\* d * k for a double d and an integer k with 2 <= k < 2^9.
DoubleTimes(d, k) == RoundProduct(BigTimesSmall(d.mant, k, 0), d.exp)

\* Math.round of a positive double below 2^31: the nearest integer, a tie
\* going to the larger one.
MathRound(d) ==
    IF d.exp < -1 THEN 0
    ELSE BigToInt(BigShiftRight(d.mant, (MantBits - 1) - d.exp))
         + BigBit(d.mant, (MantBits - 2) - d.exp)

\* totalCommits > 0 ? Math.round((aiCount / totalCommits) * 100) : 0
AiPercentage(aiCount, totalCommits) ==
    IF totalCommits > 0
        THEN IF aiCount = 0 THEN 0
             ELSE MathRound(DoubleTimes(DoubleDivide(aiCount, totalCommits), 100))
    ELSE 0

\* round(100 * a / t) over the rationals, halves rounded up.
RoundHalfUp(a, t) == (200 * a + t) \div (2 * t)

(***************************************************************************)
(* The data of one fetchCommitDataClient call.                             *)
(***************************************************************************)
AITools == {"claude-coauthor", "claude-generated", "copilot", "cursor", "codex", "gemini"}
ClaudeModels == {"opus", "sonnet", "haiku", "unknown"}

emptyToolBreakdown == [t \in AITools |-> 0]
emptyModelBreakdown == [m \in ClaudeModels |-> 0]

\* PR_LABEL_TO_TOOL, in the order of its keys (AI_PR_LABELS).
AI_PR_LABELS ==
    <<"ai-claude-code", "ai-codex", "ai-codex-cli", "ai-copilot",
      "ai-cursor-agent", "ai-cursor-chat", "ai-gemini-cli">>

PR_LABEL_TO_TOOL ==
    [l \in {AI_PR_LABELS[i] : i \in DOMAIN AI_PR_LABELS} |->
        CASE l = "ai-claude-code"  -> "claude-generated"
          [] l = "ai-codex"        -> "codex"
          [] l = "ai-codex-cli"    -> "codex"
          [] l = "ai-copilot"      -> "copilot"
          [] l = "ai-cursor-agent" -> "cursor"
          [] l = "ai-cursor-chat"  -> "cursor"
          [] l = "ai-gemini-cli"   -> "gemini" ]

\* The repositories passed in (displayName).
Repositories == {"repo-a", "repo-b"}

\* Commit objects are named in the order in which the call first sees them:
\* the k-th distinct commit object has SHA k.  A SHA above the number fetched
\* is a commit outside the fetched window.
Shas == 1..MaxResponses

\* author.login of a commit; Null stands for author: null.
Logins == {Null, "alice", "bob"}

\* The messages of the commits of the feed.
FeedMessages ==
    { MessageText(m) : m \in
        { [body |-> <<"Fix bug">>, trailers |-> <<>>],
          [body |-> <<"Fix bug">>, trailers |->
              << [key |-> "Co-authored-by:", name |-> "Claude",
                  text |-> <<" ", "Opus", " ", "4.5", " ">>,
                  domain |-> "@anthropic.com>"] >>],
          [body |-> <<"Fix bug">>, trailers |->
              << [key |-> "Co-authored-by:", name |-> "Copilot", text |-> <<" ">>,
                  domain |-> "@users.noreply.github.com>"] >>] } }

\* The label lists of the pull requests the search returns.
PRLabelLists ==
    { <<"ai-claude-code">>, <<"bug", "ai-codex-cli", "ai-claude-code">> }

\* Every login passes, the null one too.
TruthyAlways(x) == TRUE

\* JavaScript truthiness of a login.
Truthy(x) == x # Null /\ x # ""

(***************************************************************************)
(* A JavaScript Map: a sequence of [key, value] pairs in insertion order.  *)
(***************************************************************************)
MapHas(map, k) == \E i \in DOMAIN map : map[i].key = k

MapGet(map, k) == map[CHOOSE i \in DOMAIN map : map[i].key = k].value

MapSet(map, k, v) ==
    IF MapHas(map, k)
        THEN [i \in DOMAIN map |-> IF map[i].key = k THEN [key |-> k, value |-> v]
                                   ELSE map[i]]
    ELSE Append(map, [key |-> k, value |-> v])

(***************************************************************************)
(* fetchCommitDataClient: the detection loop over allCommits.              *)
(* An entry of aiCommitsWithTool refers to its commit by the commit's      *)
(* position in allCommits.                                                 *)
(***************************************************************************)
Increment(breakdown, k) == [breakdown EXCEPT ![k] = @ + 1]

RECURSIVE DetectionLoop(_, _, _)
DetectionLoop(commits, i, acc) ==
    IF i > Len(commits) THEN acc
    ELSE LET det == detectAITool(commits[i].message) IN
         IF det.aiTool # Null
            THEN DetectionLoop(commits, i + 1,
                    [ai |-> Append(acc.ai, [commit |-> i, aiTool |-> det.aiTool,
                                             claudeModel |-> det.claudeModel]),
                     tools |-> Increment(acc.tools, det.aiTool),
                     models |-> IF det.claudeModel # Undefined
                                    THEN Increment(acc.models, det.claudeModel)
                                ELSE acc.models])
         ELSE DetectionLoop(commits, i + 1, acc)

(***************************************************************************)
(* fetchAILabeledPRs: the worker run for one pull request of a search      *)
(* result.                                                                 *)
(***************************************************************************)
PRKey(repo, number) == <<repo, number>>

\* item.labels.find(l => PR_LABEL_TO_TOOL[l.name]); Undefined if none.
RECURSIVE FindAILabel(_)
FindAILabel(labels) ==
    IF labels = <<>> THEN Undefined
    ELSE IF Head(labels) \in DOMAIN PR_LABEL_TO_TOOL THEN Head(labels)
    ELSE FindAILabel(Tail(labels))

\* The results after the worker has run for the item: ok is prResponse.ok,
\* mergeSha is prData.merge_commit_sha.
PRWorker(results, repo, labels, ok, mergeSha) ==
    IF ~ok THEN results
    ELSE IF mergeSha = NoSha THEN results
    ELSE LET aiLabel == FindAILabel(labels) IN
         IF aiLabel = Undefined THEN results
         ELSE Append(results, [sha |-> mergeSha, aiTool |-> PR_LABEL_TO_TOOL[aiLabel],
                               repo |-> repo])

(***************************************************************************)
(* fetchCommitDataClient: enrichment with the PR label results.            *)
(***************************************************************************)
\* new Map(allCommits.map(c => [c.sha, c])): the last commit with the SHA.
CommitBySHA(commits, sha) ==
    IF \E i \in DOMAIN commits : commits[i].sha = sha
        THEN CHOOSE i \in DOMAIN commits :
                /\ commits[i].sha = sha
                /\ \A j \in DOMAIN commits : commits[j].sha = sha => j <= i
    ELSE 0

\* A pull request is applied whether or not its SHA was detected already.
AlreadyDetectedNever(detectedSHAs, sha) == FALSE

\* detectedSHAs.has(pr.sha)
AlreadyDetected(detectedSHAs, sha) == sha \in detectedSHAs

\* The SHA is not remembered.
AddDetectedForgotten(detectedSHAs, sha) == detectedSHAs

\* detectedSHAs.add(pr.sha)
AddDetected(detectedSHAs, sha) == detectedSHAs \cup {sha}

RECURSIVE EnrichLoop(_, _, _)
EnrichLoop(commits, prs, acc) ==
    IF prs = <<>> THEN acc
    ELSE LET pr == Head(prs)
             commit == CommitBySHA(commits, pr.sha)
         IN  IF AlreadyDetected(acc.detectedSHAs, pr.sha) THEN EnrichLoop(commits, Tail(prs), acc)
             ELSE IF commit = 0 THEN EnrichLoop(commits, Tail(prs), acc)
             ELSE EnrichLoop(commits, Tail(prs),
                    [ai |-> Append(acc.ai, [commit |-> commit, aiTool |-> pr.aiTool,
                                             claudeModel |-> Undefined]),
                     tools |-> Increment(acc.tools, pr.aiTool),
                     detectedSHAs |-> AddDetected(acc.detectedSHAs, pr.sha)])

Enrich(commits, prs, ai, tools) ==
    EnrichLoop(commits, prs,
        [ai |-> ai, tools |-> tools,
         detectedSHAs |-> {commits[ai[i].commit].sha : i \in DOMAIN ai}])

(***************************************************************************)
(* fetchCommitDataClient: aggregation per user and the leaderboard.        *)
(***************************************************************************)
\* userTotalCommits: username -> number of commits, in insertion order.
RECURSIVE UserTotalCommits(_, _, _)
UserTotalCommits(commits, i, map) ==
    IF i > Len(commits) THEN map
    ELSE LET username == commits[i].login IN
         IF Truthy(username)
            THEN UserTotalCommits(commits, i + 1,
                    MapSet(map, username,
                           (IF MapHas(map, username) THEN MapGet(map, username) ELSE 0) + 1))
         ELSE UserTotalCommits(commits, i + 1, map)

\* The tool breakdown is copied without the increment.
UpdatedToolBreakdownStale(existing, aiTool) == existing.aiToolBreakdown

\* updatedToolBreakdown: a copy of the user's breakdown, the tool incremented.
UpdatedToolBreakdown(existing, aiTool) == Increment(existing.aiToolBreakdown, aiTool)

\* userCommits: username -> AI commit data.
RECURSIVE UserCommits(_, _, _, _)
UserCommits(commits, ai, i, map) ==
    IF i > Len(ai) THEN map
    ELSE LET commit == commits[ai[i].commit]
             username == commit.login
         IN  IF Truthy(username)
                THEN LET existing ==
                             IF MapHas(map, username) THEN MapGet(map, username)
                             ELSE [count |-> 0, commits |-> <<>>,
                                   aiToolBreakdown |-> emptyToolBreakdown,
                                   claudeModelBreakdown |-> emptyModelBreakdown]
                         commitDetail ==
                             [sha |-> commit.sha, repository |-> commit.repository,
                              aiTool |-> ai[i].aiTool, claudeModel |-> ai[i].claudeModel]
                     IN  UserCommits(commits, ai, i + 1,
                            MapSet(map, username,
                                [count |-> existing.count + 1,
                                 commits |-> Append(existing.commits, commitDetail),
                                 aiToolBreakdown |->
                                     UpdatedToolBreakdown(existing, ai[i].aiTool),
                                 claudeModelBreakdown |->
                                     IF ai[i].claudeModel # Undefined
                                         THEN Increment(existing.claudeModelBreakdown,
                                                        ai[i].claudeModel)
                                     ELSE existing.claudeModelBreakdown]))
             ELSE UserCommits(commits, ai, i + 1, map)

\* The entry of one user, before ranking.
LeaderboardEntry(username, totalCommits, userCommits) ==
    LET has == MapHas(userCommits, username)
        aiData == MapGet(userCommits, username)
        aiCount == IF has /\ aiData.count # 0 THEN aiData.count ELSE 0
    IN  [username |-> username,
         commits |-> aiCount,
         totalCommits |-> totalCommits,
         aiPercentage |-> AiPercentage(aiCount, totalCommits),
         commitDetails |-> IF has THEN aiData.commits ELSE <<>>,
         aiToolBreakdown |-> IF has THEN aiData.aiToolBreakdown ELSE emptyToolBreakdown,
         claudeModelBreakdown |->
             IF has THEN aiData.claudeModelBreakdown ELSE emptyModelBreakdown]

\* The comparator without the tie-break on total commits.
CompareEntriesNoTieBreak(a, b) == b.commits - a.commits

\* The comparator of the sort: negative when a goes before b.
CompareEntries(a, b) ==
    IF b.commits # a.commits THEN b.commits - a.commits
    ELSE b.totalCommits - a.totalCommits

\* Array.prototype.sort is stable: an entry goes behind every entry that does
\* not compare greater than it.
RECURSIVE InsertSorted(_, _)
InsertSorted(sorted, e) ==
    IF sorted = <<>> THEN <<e>>
    ELSE IF CompareEntries(Head(sorted), e) <= 0
        THEN <<Head(sorted)>> \o InsertSorted(Tail(sorted), e)
    ELSE <<e>> \o sorted

RECURSIVE SortEntries(_, _)
SortEntries(entries, sorted) ==
    IF entries = <<>> THEN sorted
    ELSE SortEntries(Tail(entries), InsertSorted(sorted, Head(entries)))

\* Array.from(userTotalCommits.entries()).map(...).sort(...).map(rank)
BuildLeaderboard(userTotalCommits, userCommits) ==
    LET entries == [i \in DOMAIN userTotalCommits |->
                        LeaderboardEntry(userTotalCommits[i].key,
                                         userTotalCommits[i].value, userCommits)]
        sorted == SortEntries(entries, <<>>)
    IN  [i \in DOMAIN sorted |->
            [rank |-> i,
             username |-> sorted[i].username,
             commits |-> sorted[i].commits,
             totalCommits |-> sorted[i].totalCommits,
             aiPercentage |-> sorted[i].aiPercentage,
             commitDetails |-> sorted[i].commitDetails,
             aiToolBreakdown |-> sorted[i].aiToolBreakdown,
             claudeModelBreakdown |-> sorted[i].claudeModelBreakdown]]

\* The LeaderboardData returned.
LeaderboardData(commits, ai, tools, models) ==
    LET userTotalCommits == UserTotalCommits(commits, 1, <<>>)
        userCommits == UserCommits(commits, ai, 1, <<>>)
    IN  [returned |-> TRUE,
         totalCommits |-> Len(commits),
         aiCommits |-> Len(ai),
         aiToolBreakdown |-> tools,
         claudeModelBreakdown |-> models,
         activeUsers |-> Len(userTotalCommits),
         leaderboard |-> BuildLeaderboard(userTotalCommits, userCommits)]

(***************************************************************************)
(* Spec: one call of fetchCommitDataClient with a non-empty repository     *)
(* list.                                                                   *)
(***************************************************************************)
NoMessage == [body |-> <<>>, trailers |-> <<>>]
NoCounts == [aiCount |-> 0, totalCommits |-> 0]

Init ==
    /\ OtherIdle
    /\ phase = "fetching"
    /\ allCommits = <<>>
    /\ aiCommitsWithTool = <<>>
    /\ globalToolBreakdown = emptyToolBreakdown
    /\ globalModelBreakdown = emptyModelBreakdown
    /\ seenPRs = {}
    /\ prResults = <<>>
    /\ data = NoData
    /\ message = NoMessage
    /\ detection = NoDetection
    /\ pctIn = NoCounts
    /\ pctOut = 0
    /\ PoolIdle

\* What the commit API can return next: a commit object is in a repository
\* once, and the same object (same SHA, hence same author and message) can be
\* in several repositories.  Commit objects, authors and repositories are
\* named in the order in which the call first sees them: SHA 1, 2, ...,
\* "alice" before "bob", "repo-a" before "repo-b".
CanFetch(commit) ==
    LET seen == {allCommits[i].sha : i \in DOMAIN allCommits} IN
    /\ commit.sha <= Cardinality(seen) + 1
    /\ commit.repository = "repo-b" =>
          \E i \in DOMAIN allCommits : allCommits[i].repository = "repo-a"
    /\ commit.login = "bob" => \E i \in DOMAIN allCommits : allCommits[i].login = "alice"
    /\ \A i \in DOMAIN allCommits :
          allCommits[i].sha = commit.sha =>
              /\ allCommits[i].repository # commit.repository
              /\ allCommits[i].login = commit.login
              /\ allCommits[i].message = commit.message

\* A repository worker receives a page (here: of one commit) and pushes it on
\* allCommits.
FetchPage(repository, sha, login, msg) ==
    LET commit == [sha |-> sha, login |-> login, message |-> msg,
                   repository |-> repository] IN
    /\ phase = "fetching"
    /\ Len(allCommits) < MaxResponses
    /\ CanFetch(commit)
    /\ allCommits' = Append(allCommits, commit)
    /\ UNCHANGED <<phase, aiCommitsWithTool, globalToolBreakdown, globalModelBreakdown,
                   seenPRs, prResults, data, message, detection, pctIn, pctOut, poolVars>>

\* All repository workers have finished: the detection loop runs and the PR
\* phase starts.
Analyze ==
    /\ phase = "fetching"
    /\ LET r == DetectionLoop(allCommits, 1,
                    [ai |-> <<>>, tools |-> emptyToolBreakdown,
                     models |-> emptyModelBreakdown]) IN
        /\ aiCommitsWithTool' = r.ai
        /\ globalToolBreakdown' = r.tools
        /\ globalModelBreakdown' = r.models
    /\ phase' = "fetching-prs"
    /\ UNCHANGED <<allCommits, seenPRs, prResults, data, message, detection,
                   pctIn, pctOut, poolVars>>

\* What the lookup of a pull request can answer: a failure, or the pull
\* request with its merge commit (none, a fetched commit, or one outside the
\* fetched window).
PRResponses ==
    {[ok |-> FALSE, merge_commit_sha |-> NoSha]}
    \cup {[ok |-> TRUE, merge_commit_sha |-> s] : s \in {NoSha} \cup Shas}

\* Commits outside the fetched window are named like the fetched ones: the
\* next unused SHA.
CanAnswer(prResponse) ==
    prResponse.merge_commit_sha
        <= Cardinality({allCommits[i].sha : i \in DOMAIN allCommits}) + 1

\* fetchAILabeledPRs: the worker runs for one item of a search result whose
\* pull request was not seen before.  Pull requests are numbered in the order
\* in which the searches first return them.
LookupPR(repo, labels, prResponse) ==
    LET number == Cardinality(seenPRs) + 1 IN
    /\ phase = "fetching-prs"
    /\ PRKey(repo, number) \notin seenPRs
    /\ Len(allCommits) + Cardinality(seenPRs) < MaxResponses
    /\ CanAnswer(prResponse)
    /\ seenPRs' = seenPRs \cup {PRKey(repo, number)}
    /\ prResults' = PRWorker(prResults, repo, labels, prResponse.ok,
                             prResponse.merge_commit_sha)
    /\ UNCHANGED <<phase, allCommits, aiCommitsWithTool, globalToolBreakdown,
                   globalModelBreakdown, data, message, detection, pctIn, pctOut, poolVars>>

\* The worker runs for an item whose pull request was seen before (it matched
\* another label or page): it returns without a lookup.
SkipSeenPR(repo, number) ==
    /\ phase = "fetching-prs"
    /\ PRKey(repo, number) \in seenPRs
    /\ UNCHANGED vars

\* fetchAILabeledPRs returns: enrichment, aggregation, return.
FinishWithPRs ==
    /\ phase = "fetching-prs"
    /\ LET e == Enrich(allCommits, prResults, aiCommitsWithTool, globalToolBreakdown) IN
        /\ aiCommitsWithTool' = e.ai
        /\ globalToolBreakdown' = e.tools
        /\ data' = LeaderboardData(allCommits, e.ai, e.tools, globalModelBreakdown)
    /\ phase' = "done"
    /\ UNCHANGED <<allCommits, globalModelBreakdown, seenPRs, prResults,
                   message, detection, pctIn, pctOut, poolVars>>

\* fetchAILabeledPRs throws (a fetch rejects): its results are lost, the
\* aggregation runs on the message detections alone.
FinishWithoutPRs ==
    /\ phase = "fetching-prs"
    /\ seenPRs' = {}
    /\ prResults' = <<>>
    /\ data' = LeaderboardData(allCommits, aiCommitsWithTool, globalToolBreakdown,
                               globalModelBreakdown)
    /\ phase' = "done"
    /\ UNCHANGED <<allCommits, aiCommitsWithTool, globalToolBreakdown,
                   globalModelBreakdown, message, detection, pctIn, pctOut, poolVars>>

Next ==
    \/ \E repository \in Repositories, sha \in Shas, login \in Logins,
          msg \in FeedMessages : FetchPage(repository, sha, login, msg)
    \/ Analyze
    \/ \E repo \in Repositories, labels \in PRLabelLists, prResponse \in PRResponses :
            LookupPR(repo, labels, prResponse)
    \/ \E repo \in Repositories, number \in 1..MaxResponses : SkipSeenPR(repo, number)
    \/ FinishWithPRs
    \/ FinishWithoutPRs

Spec == Init /\ [][Next]_vars

(***************************************************************************)
(* SpecTwice: Spec, and a second invocation of the classification and the  *)
(* aggregation on the commit list and the PR-label results of the first.   *)
(* The accumulators of an invocation are objects it creates: what the      *)
(* first invocation left in its own is given to the operators that create  *)
(* them, which do not read it.                                             *)
(***************************************************************************)
\* One breakdown object shared by the invocations.
NewToolBreakdownShared(left) == left

\* const globalToolBreakdown = emptyToolBreakdown(): the factory returns a new
\* object.
NewToolBreakdown(left) == emptyToolBreakdown

\* const globalModelBreakdown = emptyModelBreakdown()
NewModelBreakdown(left) == emptyModelBreakdown

\* The second invocation: detection loop, enrichment, aggregation, return.
InvokeAgain ==
    /\ phase = "done"
    /\ dataAgain = NoData
    /\ LET r == DetectionLoop(allCommits, 1,
                    [ai |-> <<>>, tools |-> NewToolBreakdown(globalToolBreakdown),
                     models |-> NewModelBreakdown(globalModelBreakdown)])
           e == Enrich(allCommits, prResults, r.ai, r.tools)
       IN  /\ aiCommitsWithTool' = e.ai
           /\ globalToolBreakdown' = e.tools
           /\ globalModelBreakdown' = r.models
           /\ dataAgain' = LeaderboardData(allCommits, e.ai, e.tools, r.models)
    /\ UNCHANGED <<phase, allCommits, seenPRs, prResults, data, message, detection,
                   pctIn, pctOut, repositories, feeds, countInFlight, counts,
                   totalCommitsEstimate, nextIndex, workerLoops, activeRepoNames,
                   completedRepos, requested, fetchCalls, progress, prVars,
                   dateRange, labelConfig, newLabel, newLabelTool, labelOp>>

NextTwice ==
    \/ \E repository \in Repositories, sha \in Shas, login \in Logins,
          msg \in FeedMessages : FetchPage(repository, sha, login, msg)
    \/ Analyze
    \/ \E repo \in Repositories, labels \in PRLabelLists, prResponse \in PRResponses :
            LookupPR(repo, labels, prResponse)
    \/ \E repo \in Repositories, number \in 1..MaxResponses : SkipSeenPR(repo, number)
    \/ FinishWithPRs
    \/ FinishWithoutPRs
    \/ InvokeAgain

SpecTwice == Init /\ [][NextTwice]_vars

(***************************************************************************)
(* SpecDetect: detectAITool applied to a message.                          *)
(***************************************************************************)
InitDetect ==
    /\ OtherIdle
    /\ phase = "classify"
    /\ message \in Messages
    /\ detection = NoDetection
    /\ allCommits = <<>>
    /\ aiCommitsWithTool = <<>>
    /\ globalToolBreakdown = emptyToolBreakdown
    /\ globalModelBreakdown = emptyModelBreakdown
    /\ seenPRs = {}
    /\ prResults = <<>>
    /\ data = NoData
    /\ pctIn = NoCounts
    /\ pctOut = 0
    /\ PoolIdle

Classify ==
    /\ phase = "classify"
    /\ detection' = detectAITool(MessageText(message))
    /\ phase' = "classified"
    /\ UNCHANGED <<allCommits, aiCommitsWithTool, globalToolBreakdown,
                   globalModelBreakdown, seenPRs, prResults, data, message,
                   pctIn, pctOut, poolVars>>

NextDetect == Classify

SpecDetect == InitDetect /\ [][NextDetect]_vars

(***************************************************************************)
(* SpecPct: the aiPercentage of an author with aiCount AI commits out of   *)
(* totalCommits commits.                                                   *)
(***************************************************************************)
InitPct ==
    /\ OtherIdle
    /\ phase = "percentage"
    /\ pctIn \in {c \in [aiCount : 0..MaxPctTotal, totalCommits : 1..MaxPctTotal] :
                     c.aiCount <= c.totalCommits}
    /\ pctOut = 0
    /\ message = NoMessage
    /\ detection = NoDetection
    /\ allCommits = <<>>
    /\ aiCommitsWithTool = <<>>
    /\ globalToolBreakdown = emptyToolBreakdown
    /\ globalModelBreakdown = emptyModelBreakdown
    /\ seenPRs = {}
    /\ prResults = <<>>
    /\ data = NoData
    /\ PoolIdle

ComputePercentage ==
    /\ phase = "percentage"
    /\ pctOut' = AiPercentage(pctIn.aiCount, pctIn.totalCommits)
    /\ phase' = "computed"
    /\ UNCHANGED <<allCommits, aiCommitsWithTool, globalToolBreakdown,
                   globalModelBreakdown, seenPRs, prResults, data, message,
                   detection, pctIn, poolVars>>

NextPct == ComputePercentage

SpecPct == InitPct /\ [][NextPct]_vars

(***************************************************************************)
(* SpecPool: one call of fetchCommitDataClient seen from its requests.     *)
(* The repositories and what the commit API answers for each of them are   *)
(* fixed when the call starts; the order in which the answers arrive is    *)
(* not.  A step is what runs between two awaited answers.                  *)
(***************************************************************************)
\* runWithConcurrency(repositories, 3, ...)
Concurrency == 3

\* if (page > 500) break
PageLimit == 500

\* The number of repositories passed to the call.
MaxRepos == 4

RepoNames == <<"repo-a", "repo-b", "repo-c", "repo-d", "repo-e", "repo-f">>

Min(a, b) == IF a <= b THEN a ELSE b

\* Every item gets a workerLoop of its own.
PoolSizeUnlimited(concurrency, n) == n

\* Math.min(concurrency, items.length)
PoolSize(concurrency, n) == Min(concurrency, n)

\* The repository list is never taken for empty.
NoRepositoriesNever(repos) == FALSE

\* repositories.length === 0
NoRepositories(repos) == Len(repos) = 0

\* The answers to a page request: a page of commits with or without
\* rel="next", a non-success response, a rejected fetch.
PageOK(commits, next) == [status |-> "ok", commits |-> commits, next |-> next]
PageError == [status |-> "error", commits |-> <<>>, next |-> FALSE]
PageThrow == [status |-> "throw", commits |-> <<>>, next |-> FALSE]

CopilotMessage ==
    MessageText([body |-> <<"Fix bug">>, trailers |->
        << [key |-> "Co-authored-by:", name |-> "Copilot", text |-> <<" ">>,
            domain |-> "@users.noreply.github.com>"] >>])

\* What the commit API answers for a repository: its first pages, and the
\* answer to every page after them.
Feeds ==
    { [pages |-> <<PageOK(<<[login |-> "alice", message |-> CopilotMessage]>>, FALSE)>>,
       rest |-> PageOK(<<>>, FALSE)],
      [pages |-> <<PageOK(<<[login |-> "bob", message |-> CopilotMessage]>>, TRUE),
                   PageError>>,
       rest |-> PageOK(<<>>, FALSE)],
      [pages |-> <<PageThrow>>, rest |-> PageOK(<<>>, FALSE)] }

ResponseOf(feed, page) ==
    IF page <= Len(feed.pages) THEN feed.pages[page] ELSE feed.rest

\* commits.map(commit => ({ ...commit, repository: repository.displayName }))
CommitsWithRepo(repos, r, page, response) ==
    [k \in 1..Len(response.commits) |->
        [sha |-> 100 * r + 10 * page + k,
         login |-> response.commits[k].login,
         message |-> response.commits[k].message,
         repository |-> repos[r]]]

\* A failed page drops what was fetched before it.
AfterPageDropping(commits, response, commitsWithRepo) ==
    IF response.status = "ok" THEN commits \o commitsWithRepo ELSE <<>>

\* allCommits after a page answer: allCommits.push(...commitsWithRepo) after
\* a success, nothing after a failure.
AfterPage(commits, response, commitsWithRepo) ==
    IF response.status = "ok" THEN commits \o commitsWithRepo ELSE commits

\* The page is requested again.
NextPageSame(page) == page

\* page++
NextPage(page) == page + 1

\* The loop goes on: hasMore and the page limit.
HasMore(response, page) ==
    /\ response.status = "ok"
    /\ response.next
    /\ ~(NextPage(page) > PageLimit)

RECURSIVE Repeat(_, _)
Repeat(x, n) == IF n = 0 THEN <<>> ELSE <<x>> \o Repeat(x, n - 1)

\* The value returned for an empty repository list.
EmptyLeaderboardData ==
    [returned |-> TRUE, totalCommits |-> 0, aiCommits |-> 0,
     aiToolBreakdown |-> emptyToolBreakdown,
     claudeModelBreakdown |-> emptyModelBreakdown,
     activeUsers |-> 0, leaderboard |-> <<>>]

IdleWorker == [item |-> 0, page |-> 0]

InitPool ==
    /\ OtherIdle
    /\ phase = "start"
    /\ \E n \in 0..MaxRepos :
          /\ repositories = SubSeq(RepoNames, 1, n)
          /\ feeds \in [1..n -> Feeds]
          /\ requested = [r \in 1..n |-> <<>>]
    /\ countInFlight = 0
    /\ counts = NoneCounted
    /\ totalCommitsEstimate = NoEstimate
    /\ nextIndex = 0
    /\ workerLoops = <<>>
    /\ activeRepoNames = {}
    /\ completedRepos = 0
    /\ fetchCalls = 0
    /\ progress = <<>>
    /\ pulls = <<>>
    /\ searchAt = 0
    /\ items = <<>>
    /\ resultKeys = <<>>
    /\ allCommits = <<>>
    /\ aiCommitsWithTool = <<>>
    /\ globalToolBreakdown = emptyToolBreakdown
    /\ globalModelBreakdown = emptyModelBreakdown
    /\ seenPRs = {}
    /\ prResults = <<>>
    /\ data = NoData
    /\ message = NoMessage
    /\ detection = NoDetection
    /\ pctIn = NoCounts
    /\ pctOut = 0

\* The call with an empty repository list returns at once.
ReturnEmpty ==
    /\ phase = "start"
    /\ NoRepositories(repositories)
    /\ data' = EmptyLeaderboardData
    /\ phase' = "done"
    /\ UNCHANGED <<allCommits, aiCommitsWithTool, globalToolBreakdown,
                   globalModelBreakdown, seenPRs, prResults, message, detection,
                   pctIn, pctOut, poolVars>>

\* Phase 1: the 'counting' event, and one count request per repository, all
\* sent at once (Promise.all over repositories.map).
StartCounting ==
    /\ phase = "start"
    /\ ~NoRepositories(repositories)
    /\ progress' = Append(progress, "counting")
    /\ countInFlight' = Len(repositories)
    /\ fetchCalls' = fetchCalls + Len(repositories)
    /\ phase' = "counting"
    /\ UNCHANGED <<allCommits, aiCommitsWithTool, globalToolBreakdown,
                   globalModelBreakdown, seenPRs, prResults, data, message,
                   detection, pctIn, pctOut, repositories, feeds,
                   counts, totalCommitsEstimate, nextIndex, workerLoops,
                   activeRepoNames, completedRepos, requested, prVars, otherVars>>

\* What a count request contributes: 0 after a non-success response, else
\* the number of commits (here: of a repository with one commit).
CountOf(outcome) == IF outcome = "ok" THEN 1 ELSE 0

Counting(ph) == ph = "counting"

\* A rejected count request ends the whole call.
CountingEndsOnSuccess(outcome, inFlight) == outcome # "throw" /\ inFlight = 1

\* await Promise.all(...) in try/catch is over: every count request is
\* answered, or one is rejected.
CountingEnds(outcome, inFlight) == outcome = "throw" \/ inFlight = 1

\* A count request is answered.  The last answer, or the first rejected
\* fetch, ends phase 1: runWithConcurrency starts its workerLoops, each of
\* which takes a repository and requests its first page.  An answer that
\* arrives after phase 1 has ended is dropped.
CountRespond(outcome) ==
    LET n == Len(repositories)
        k == PoolSize(Concurrency, n)
        counted == IF ~Counting(phase) THEN counts
                   ELSE IF outcome = "throw" THEN [sum |-> 0, rejected |-> TRUE]
                   ELSE [sum |-> counts.sum + CountOf(outcome), rejected |-> FALSE]
    IN
    /\ countInFlight > 0
    /\ countInFlight' = countInFlight - 1
    /\ counts' = counted
    /\ IF Counting(phase) /\ CountingEnds(outcome, countInFlight)
          THEN /\ totalCommitsEstimate' = IF counted.rejected THEN NoEstimate
                                          ELSE counted.sum
               /\ nextIndex' = k
               /\ workerLoops' = [w \in 1..k |-> [item |-> w, page |-> 1]]
               /\ activeRepoNames' = {repositories[w] : w \in 1..k}
               /\ requested' = [r \in 1..n |-> IF r <= k THEN <<1>> ELSE <<>>]
               /\ fetchCalls' = fetchCalls + k
               /\ progress' = progress \o Repeat("fetching", k)
               /\ phase' = "fetching"
          ELSE UNCHANGED <<totalCommitsEstimate, nextIndex, workerLoops,
                           activeRepoNames, requested, fetchCalls, progress, phase>>
    /\ UNCHANGED <<allCommits, aiCommitsWithTool, globalToolBreakdown,
                   globalModelBreakdown, seenPRs, prResults, data, message,
                   detection, pctIn, pctOut, repositories, feeds, completedRepos,
                   prVars, otherVars>>

\* The index is read and not advanced.
TakeNextAgain(next) == next

\* const i = nextIndex++: the item taken (items are numbered from 1), which is
\* also the number of items taken so far.
TakeNext(next) == next + 1

\* The pool resolves with its first workerLoop.
AnyEnded(loops) == \E v \in DOMAIN loops : loops[v].item = 0

\* await Promise.all(...workerLoop()): every workerLoop has ended.
AllEnded(loops) == \A v \in DOMAIN loops : loops[v].item = 0

\* The page request of workerLoop w is answered.  The worker pushes the page
\* and requests the next one, or leaves the repository (after the last page,
\* a failure or the page limit) and takes the next repository of the queue;
\* when the last workerLoop ends, the 'analyzing' event, the detection loop
\* and the 'fetching-prs' event follow.
PageRespond(w) ==
    /\ phase = "fetching"
    /\ w \in DOMAIN workerLoops
    /\ workerLoops[w].item # 0
    /\ LET n == Len(repositories)
           r == workerLoops[w].item
           page == workerLoops[w].page
           response == ResponseOf(feeds[r], page)
           pushed == AfterPage(allCommits, response,
                               CommitsWithRepo(repositories, r, page, response))
           emitted == IF response.status = "ok" THEN progress \o <<"fetching">>
                      ELSE progress
       IN
       /\ allCommits' = pushed
       /\ IF HasMore(response, page)
             THEN /\ workerLoops' = [workerLoops EXCEPT ![w].page = NextPage(page)]
                  /\ requested' = [requested EXCEPT ![r] = Append(@, NextPage(page))]
                  /\ fetchCalls' = fetchCalls + 1
                  /\ progress' = emitted
                  /\ UNCHANGED <<nextIndex, activeRepoNames, completedRepos, phase,
                                 aiCommitsWithTool, globalToolBreakdown,
                                 globalModelBreakdown>>
             ELSE /\ completedRepos' = completedRepos + 1
                  /\ IF nextIndex < n
                        THEN LET i == TakeNext(nextIndex) IN
                             /\ nextIndex' = TakeNext(nextIndex)
                             /\ workerLoops' = [workerLoops EXCEPT
                                                   ![w] = [item |-> i, page |-> 1]]
                             /\ activeRepoNames' = (activeRepoNames \ {repositories[r]})
                                                      \cup {repositories[i]}
                             /\ requested' = [requested EXCEPT ![i] = Append(@, 1)]
                             /\ fetchCalls' = fetchCalls + 1
                             /\ progress' = emitted \o <<"fetching", "fetching">>
                             /\ UNCHANGED <<phase, aiCommitsWithTool,
                                            globalToolBreakdown, globalModelBreakdown>>
                        ELSE LET loops == [workerLoops EXCEPT ![w] = IdleWorker]
                                 ended == AllEnded(loops)
                                 found == DetectionLoop(pushed, 1,
                                            [ai |-> <<>>, tools |-> emptyToolBreakdown,
                                             models |-> emptyModelBreakdown])
                             IN
                             /\ workerLoops' = loops
                             /\ activeRepoNames' = activeRepoNames \ {repositories[r]}
                             /\ UNCHANGED <<nextIndex, requested, fetchCalls>>
                             /\ IF ended
                                   THEN /\ progress' = emitted \o
                                            <<"fetching", "analyzing", "fetching-prs">>
                                        /\ aiCommitsWithTool' = found.ai
                                        /\ globalToolBreakdown' = found.tools
                                        /\ globalModelBreakdown' = found.models
                                        /\ phase' = "fetching-prs"
                                   ELSE /\ progress' = emitted \o <<"fetching">>
                                        /\ UNCHANGED <<phase, aiCommitsWithTool,
                                                       globalToolBreakdown,
                                                       globalModelBreakdown>>
    /\ UNCHANGED <<seenPRs, prResults, data, message, detection, pctIn, pctOut,
                   repositories, feeds, countInFlight, counts, totalCommitsEstimate,
                   prVars, otherVars>>

CountOutcomes == {"ok", "throw"}

\* The PR phase of this specification finds no labeled pull request, or
\* fails: FinishWithPRs, FinishWithoutPRs.
NextPool ==
    \/ ReturnEmpty
    \/ StartCounting
    \/ \E outcome \in CountOutcomes : CountRespond(outcome)
    \/ \E w \in 1..Concurrency : PageRespond(w)
    \/ FinishWithPRs
    \/ FinishWithoutPRs

SpecPool == InitPool /\ [][NextPool]_vars

(***************************************************************************)
(* SpecCount: SpecPool with count requests that are answered by success, a *)
(* non-success response or a rejection.                                    *)
(***************************************************************************)
\* Bound: the repositories of SpecCount.
MaxCountRepos == 2

InitCount ==
    /\ OtherIdle
    /\ phase = "start"
    /\ \E n \in 1..MaxCountRepos :
          /\ repositories = SubSeq(RepoNames, 1, n)
          /\ feeds \in [1..n -> Feeds]
          /\ requested = [r \in 1..n |-> <<>>]
    /\ countInFlight = 0
    /\ counts = NoneCounted
    /\ totalCommitsEstimate = NoEstimate
    /\ nextIndex = 0
    /\ workerLoops = <<>>
    /\ activeRepoNames = {}
    /\ completedRepos = 0
    /\ fetchCalls = 0
    /\ progress = <<>>
    /\ pulls = <<>>
    /\ searchAt = 0
    /\ items = <<>>
    /\ resultKeys = <<>>
    /\ allCommits = <<>>
    /\ aiCommitsWithTool = <<>>
    /\ globalToolBreakdown = emptyToolBreakdown
    /\ globalModelBreakdown = emptyModelBreakdown
    /\ seenPRs = {}
    /\ prResults = <<>>
    /\ data = NoData
    /\ message = NoMessage
    /\ detection = NoDetection
    /\ pctIn = NoCounts
    /\ pctOut = 0

CountAnswers == {"ok", "error", "throw"}

NextCount ==
    \/ StartCounting
    \/ \E outcome \in CountAnswers : CountRespond(outcome)
    \/ \E w \in 1..Concurrency : PageRespond(w)
    \/ FinishWithPRs
    \/ FinishWithoutPRs

SpecCount == InitCount /\ [][NextCount]_vars

(***************************************************************************)
(* SpecWindow: SpecPool called with a dateRange argument.  The window goes *)
(* into the since and until parameters of the requests and is read nowhere *)
(* else; for an empty window the commit API answers with pages without     *)
(* commits, or not at all.                                                 *)
(***************************************************************************)
\* Bound: the repositories of SpecWindow.
MaxWindowRepos == 2

\* The dateRange arguments: { start, end }, as days.
DateRanges == {[start |-> s, end |-> e] : s, e \in 1..2}

\* start is not before end.
EmptyWindow(range) == ~(range.start < range.end)

EmptyFeed == [pages |-> <<>>, rest |-> PageOK(<<>>, FALSE)]

WindowFeeds(range) ==
    IF EmptyWindow(range)
        THEN {EmptyFeed, [pages |-> <<PageThrow>>, rest |-> PageOK(<<>>, FALSE)]}
    ELSE Feeds

InitWindow ==
    /\ dateRange \in DateRanges
    /\ phase = "start"
    /\ \E n \in 1..MaxWindowRepos :
          /\ repositories = SubSeq(RepoNames, 1, n)
          /\ feeds \in [1..n -> WindowFeeds(dateRange)]
          /\ requested = [r \in 1..n |-> <<>>]
    /\ countInFlight = 0
    /\ counts = NoneCounted
    /\ totalCommitsEstimate = NoEstimate
    /\ nextIndex = 0
    /\ workerLoops = <<>>
    /\ activeRepoNames = {}
    /\ completedRepos = 0
    /\ fetchCalls = 0
    /\ progress = <<>>
    /\ pulls = <<>>
    /\ searchAt = 0
    /\ items = <<>>
    /\ resultKeys = <<>>
    /\ allCommits = <<>>
    /\ aiCommitsWithTool = <<>>
    /\ globalToolBreakdown = emptyToolBreakdown
    /\ globalModelBreakdown = emptyModelBreakdown
    /\ seenPRs = {}
    /\ prResults = <<>>
    /\ data = NoData
    /\ message = NoMessage
    /\ detection = NoDetection
    /\ pctIn = NoCounts
    /\ pctOut = 0
    /\ dataAgain = NoData
    /\ labelConfig = [labels |-> <<>>, labelScanRepos |-> <<>>]
    /\ newLabel = <<>>
    /\ newLabelTool = "claude-generated"
    /\ labelOp = NoLabelOp

\* A count request is answered; for an empty window it counts no commit.
WindowCountRespond(outcome) ==
    /\ EmptyWindow(dateRange) => outcome # "ok"
    /\ CountRespond(outcome)

NextWindow ==
    \/ StartCounting
    \/ \E outcome \in CountAnswers : WindowCountRespond(outcome)
    \/ \E w \in 1..Concurrency : PageRespond(w)
    \/ FinishWithPRs
    \/ FinishWithoutPRs

SpecWindow == InitWindow /\ [][NextWindow]_vars

(***************************************************************************)
(* SpecPages: the pagination of SpecPool on a repository whose every page  *)
(* announces a next page, next to repositories with the feeds of SpecPool. *)
(* The pages of the long repository carry no commit: the loop reads the    *)
(* status and the link header only.  FairSpecPages adds that every request *)
(* is answered (by a response or by a rejection).                          *)
(***************************************************************************)
LongFeed == [pages |-> <<>>, rest |-> PageOK(<<>>, TRUE)]

\* Bound: the repositories of SpecPages.
MaxPagedRepos == 1

InitPages ==
    /\ OtherIdle
    /\ phase = "start"
    /\ \E n \in 1..MaxPagedRepos :
          /\ repositories = SubSeq(RepoNames, 1, n)
          /\ feeds \in [1..n -> Feeds \cup {LongFeed}]
          /\ \A r \in 2..n : feeds[r] \in Feeds
          /\ requested = [r \in 1..n |-> <<>>]
    /\ countInFlight = 0
    /\ counts = NoneCounted
    /\ totalCommitsEstimate = NoEstimate
    /\ nextIndex = 0
    /\ workerLoops = <<>>
    /\ activeRepoNames = {}
    /\ completedRepos = 0
    /\ fetchCalls = 0
    /\ progress = <<>>
    /\ pulls = <<>>
    /\ searchAt = 0
    /\ items = <<>>
    /\ resultKeys = <<>>
    /\ allCommits = <<>>
    /\ aiCommitsWithTool = <<>>
    /\ globalToolBreakdown = emptyToolBreakdown
    /\ globalModelBreakdown = emptyModelBreakdown
    /\ seenPRs = {}
    /\ prResults = <<>>
    /\ data = NoData
    /\ message = NoMessage
    /\ detection = NoDetection
    /\ pctIn = NoCounts
    /\ pctOut = 0

NextPages ==
    \/ StartCounting
    \/ \E outcome \in CountOutcomes : CountRespond(outcome)
    \/ \E w \in 1..Concurrency : PageRespond(w)
    \/ FinishWithPRs
    \/ FinishWithoutPRs

SpecPages == InitPages /\ [][NextPages]_vars

\* Every request in flight is answered: the count requests and the page
\* request of each workerLoop.
FairSpecPages ==
    /\ SpecPages
    /\ WF_vars(StartCounting)
    /\ WF_vars(\E outcome \in CountOutcomes : CountRespond(outcome))
    /\ \A w \in 1..Concurrency : WF_vars(PageRespond(w))

(***************************************************************************)
(* SpecPRs: the PR phase of one call seen from its requests.  The merged   *)
(* pull requests and their labels are fixed when the phase starts; the     *)
(* searches run one after the other, repository by repository and label by *)
(* label, and the lookups of the items of a search page run in the worker  *)
(* pool.  A step is what runs between two awaited answers.                 *)
(***************************************************************************)
\* The merged pull requests of the date window, over all repositories.
MaxPulls == 2

\* Pull requests are listed repository by repository and numbered from 1 in
\* each repository.
PullWorlds(n) ==
    { p \in UNION { [1..k -> [repo : 1..n, number : 1..MaxPulls, labels : PRLabelLists]] :
                      k \in 0..MaxPulls } :
        /\ \A i \in DOMAIN p :
              p[i].number = Cardinality({j \in 1..i : p[j].repo = p[i].repo})
        /\ \A i, j \in DOMAIN p : i < j => p[i].repo <= p[j].repo }

NumSearches(repos) == Len(repos) * Len(AI_PR_LABELS)

\* The search s is the one of repository SearchRepo(s) for SearchLabel(s):
\* for (const repo of repositories) for (const label of AI_PR_LABELS).
SearchRepo(s) == ((s - 1) \div Len(AI_PR_LABELS)) + 1
SearchLabel(s) == AI_PR_LABELS[((s - 1) % Len(AI_PR_LABELS)) + 1]

\* data.items of the search: the pull requests of the repository that carry
\* the label.
SearchItems(prs, s) ==
    LET Matches(it) ==
            /\ it.repo = SearchRepo(s)
            /\ \E l \in DOMAIN it.labels : it.labels[l] = SearchLabel(s)
    IN  SelectSeq(prs, Matches)

\* What a lookup (GET pulls/{number}) answers.
PullAnswers ==
    { [status |-> "ok", merge_commit_sha |-> 1],
      [status |-> "ok", merge_commit_sha |-> NoSha],
      [status |-> "error", merge_commit_sha |-> NoSha],
      [status |-> "throw", merge_commit_sha |-> NoSha] }

\* No pull request counts as seen.
SeenBeforeNever(seen, prKey) == FALSE

\* seenPRs.has(prKey)
SeenBefore(seen, prKey) == prKey \in seen

\* The workerLoops without a lookup in flight take the next items of the
\* page: an item whose pull request was seen is dropped, another one is
\* added to seenPRs and its lookup is sent.
RECURSIVE Refill(_, _, _)
Refill(st, its, repos) ==
    LET free == {w \in DOMAIN st.loops : st.loops[w].item = 0} IN
    IF st.next >= Len(its) \/ free = {} THEN st
    ELSE LET it == its[st.next + 1]
             prKey == PRKey(repos[it.repo], it.number)
             w == CHOOSE v \in free : \A u \in free : v <= u
         IN  IF SeenBefore(st.seen, prKey)
                 THEN Refill([st EXCEPT !.next = @ + 1], its, repos)
             ELSE Refill([st EXCEPT !.next = @ + 1,
                                    !.seen = @ \cup {prKey},
                                    !.loops[w] = [item |-> st.next + 1, page |-> 0],
                                    !.calls = @ + 1], its, repos)

Busy(loops) == \E w \in DOMAIN loops : loops[w].item # 0

\* The next search is sent, or fetchAILabeledPRs returns after the last one.
NextSearch(a, repos) ==
    IF a.at + 1 > NumSearches(repos)
        THEN [a EXCEPT !.at = @ + 1, !.items = <<>>, !.loops = <<>>, !.next = 0,
                       !.outcome = "return"]
    ELSE [a EXCEPT !.at = @ + 1, !.items = <<>>, !.loops = <<>>, !.next = 0,
                   !.calls = @ + 1]

\* The page is processed: the progress message, then the next search.
EndPage(a, repos) ==
    NextSearch([a EXCEPT !.events = Append(@, "fetching-prs")], repos)

\* The state of fetchAILabeledPRs as a record.
PRState ==
    [seen |-> seenPRs, results |-> prResults, keys |-> resultKeys,
     loops |-> workerLoops, next |-> nextIndex, items |-> items,
     calls |-> fetchCalls, events |-> progress, at |-> searchAt,
     outcome |-> "continue"]

\* The step ends with fetchAILabeledPRs waiting for an answer, returning its
\* results (enrichment, aggregation, return) or rejecting (the catch:
\* aggregation without label results, return).
ApplyPR(a) ==
    /\ workerLoops' = a.loops
    /\ nextIndex' = a.next
    /\ items' = a.items
    /\ fetchCalls' = a.calls
    /\ progress' = a.events
    /\ searchAt' = a.at
    /\ CASE a.outcome = "continue" ->
              /\ seenPRs' = a.seen
              /\ prResults' = a.results
              /\ resultKeys' = a.keys
              /\ UNCHANGED <<aiCommitsWithTool, globalToolBreakdown, data, phase>>
         [] a.outcome = "return" ->
              LET e == Enrich(allCommits, a.results, aiCommitsWithTool,
                              globalToolBreakdown) IN
              /\ seenPRs' = a.seen
              /\ prResults' = a.results
              /\ resultKeys' = a.keys
              /\ aiCommitsWithTool' = e.ai
              /\ globalToolBreakdown' = e.tools
              /\ data' = LeaderboardData(allCommits, e.ai, e.tools, globalModelBreakdown)
              /\ phase' = "done"
         [] a.outcome = "reject" ->
              /\ seenPRs' = {}
              /\ prResults' = <<>>
              /\ resultKeys' = <<>>
              /\ data' = LeaderboardData(allCommits, aiCommitsWithTool,
                                         globalToolBreakdown, globalModelBreakdown)
              /\ phase' = "done"
              /\ UNCHANGED <<aiCommitsWithTool, globalToolBreakdown>>
    /\ UNCHANGED <<allCommits, globalModelBreakdown, message, detection, pctIn, pctOut,
                   repositories, feeds, countInFlight, counts, totalCommitsEstimate,
                   activeRepoNames, completedRepos, requested, pulls, otherVars>>

\* The commit the fetch phase of this specification has collected.
FetchedCommit ==
    [sha |-> 1, login |-> "alice", message |-> <<"Fix bug">>, repository |-> "repo-a"]

InitPRs ==
    /\ OtherIdle
    /\ phase = "fetching-prs"
    /\ \E n \in 1..2 :
          /\ repositories = SubSeq(RepoNames, 1, n)
          /\ pulls \in PullWorlds(n)
    /\ searchAt = 1
    /\ fetchCalls = 1
    /\ progress = <<"fetching-prs">>
    /\ items = <<>>
    /\ resultKeys = <<>>
    /\ seenPRs = {}
    /\ prResults = <<>>
    /\ workerLoops = <<>>
    /\ nextIndex = 0
    /\ allCommits = <<FetchedCommit>>
    /\ aiCommitsWithTool = <<>>
    /\ globalToolBreakdown = emptyToolBreakdown
    /\ globalModelBreakdown = emptyModelBreakdown
    /\ data = NoData
    /\ feeds = <<>>
    /\ countInFlight = 0
    /\ counts = NoneCounted
    /\ totalCommitsEstimate = NoEstimate
    /\ activeRepoNames = {}
    /\ completedRepos = 0
    /\ requested = <<>>
    /\ message = NoMessage
    /\ detection = NoDetection
    /\ pctIn = NoCounts
    /\ pctOut = 0

\* The search request is answered: a rejected fetch ends fetchAILabeledPRs,
\* a non-success response ends the label, a page starts the lookups of its
\* items in the pool (runWithConcurrency(items, 3, ...)).
SearchRespond(outcome) ==
    /\ phase = "fetching-prs"
    /\ searchAt \in 1..NumSearches(repositories)
    /\ ~Busy(workerLoops)
    /\ LET found == SearchItems(pulls, searchAt)
           k == PoolSize(Concurrency, Len(found))
           st == Refill([loops |-> [w \in 1..k |-> IdleWorker], next |-> 0,
                         seen |-> seenPRs, calls |-> fetchCalls], found, repositories)
           a == [PRState EXCEPT !.seen = st.seen, !.loops = st.loops,
                                !.next = st.next, !.calls = st.calls,
                                !.items = found]
       IN  CASE outcome = "throw" -> ApplyPR([PRState EXCEPT !.outcome = "reject"])
             [] outcome = "error" -> ApplyPR(NextSearch(PRState, repositories))
             [] outcome = "ok" ->
                    IF Busy(st.loops) THEN ApplyPR(a)
                    ELSE ApplyPR(EndPage(a, repositories))

\* The lookup of workerLoop w is answered: a rejected fetch ends
\* fetchAILabeledPRs; otherwise the worker pushes a result or not, and the
\* pool goes on with the page.
LookupRespond(w, answer) ==
    /\ phase = "fetching-prs"
    /\ w \in DOMAIN workerLoops
    /\ workerLoops[w].item # 0
    /\ LET it == items[workerLoops[w].item]
           pushed == PRWorker(prResults, repositories[it.repo], it.labels,
                              answer.status = "ok", answer.merge_commit_sha)
           keys == IF Len(pushed) > Len(prResults)
                       THEN Append(resultKeys, PRKey(repositories[it.repo], it.number))
                   ELSE resultKeys
           st == Refill([loops |-> [workerLoops EXCEPT ![w] = IdleWorker],
                         next |-> nextIndex, seen |-> seenPRs, calls |-> fetchCalls],
                        items, repositories)
           a == [PRState EXCEPT !.seen = st.seen, !.loops = st.loops,
                                !.next = st.next, !.calls = st.calls,
                                !.results = pushed, !.keys = keys]
       IN  IF answer.status = "throw"
               THEN ApplyPR([PRState EXCEPT !.outcome = "reject"])
           ELSE IF Busy(st.loops) THEN ApplyPR(a)
           ELSE ApplyPR(EndPage(a, repositories))

SearchOutcomes == {"ok", "error", "throw"}

NextPRs ==
    \/ \E outcome \in SearchOutcomes : SearchRespond(outcome)
    \/ \E w \in 1..Concurrency, answer \in PullAnswers : LookupRespond(w, answer)

SpecPRs == InitPRs /\ [][NextPRs]_vars

(***************************************************************************)
(* SpecLabels: the label configuration panel (PRLabelConfig).  A label     *)
(* text is the sequence of its words and white space; the handlers run one *)
(* at a time, each on the labelConfig of the last render.                  *)
(***************************************************************************)
\* String.prototype.trim: white space off both ends.
RECURSIVE TrimStart(_)
TrimStart(text) ==
    IF text # <<>> /\ IsSpace(Head(text)) THEN TrimStart(Tail(text)) ELSE text

RECURSIVE TrimEnd(_)
TrimEnd(text) ==
    IF text # <<>> /\ IsSpace(text[Len(text)])
        THEN TrimEnd(SubSeq(text, 1, Len(text) - 1))
    ELSE text

Trim(text) == TrimEnd(TrimStart(text))

\* No label is taken for present.
SomeLabelNever(labels, trimmed) == FALSE

\* labelConfig.labels.some(l => l.label === trimmed)
SomeLabel(labels, trimmed) == \E i \in DOMAIN labels : labels[i].label = trimmed

\* The remove button is rendered for every entry.
RemovableAlways(entry) == TRUE

\* {!entry.isDefault && (<Button ... onClick={() => handleRemoveLabel(...)}>)}
Removable(entry) == ~entry.isDefault

\* labels.map(l => l.label === label ? { ...l, enabled: !l.enabled } : l)
ToggledLabels(labels, label) ==
    [i \in DOMAIN labels |->
        IF labels[i].label = label THEN [labels[i] EXCEPT !.enabled = ~@]
        ELSE labels[i]]

\* labels.filter(l => l.label !== label)
RECURSIVE RemovedLabels(_, _)
RemovedLabels(labels, label) ==
    IF labels = <<>> THEN <<>>
    ELSE IF Head(labels).label # label
        THEN <<Head(labels)>> \o RemovedLabels(Tail(labels), label)
    ELSE RemovedLabels(Tail(labels), label)

\* handleAddLabel: the labels it leaves.
AddedLabels(labels, text, tool) ==
    LET trimmed == Trim(text) IN
    IF trimmed = <<>> THEN labels
    ELSE IF SomeLabel(labels, trimmed) THEN labels
    ELSE Append(labels, [label |-> trimmed, aiTool |-> tool, enabled |-> TRUE,
                         isDefault |-> FALSE])

\* The texts typed into the new-label input, and the tools selected for it.
LabelTexts ==
    { <<>>, <<" ">>, <<"ai-windsurf">>, <<" ", "ai-windsurf", " ">>, <<"ai-devin">>,
      <<"ai-claude-code", " ">> }

LabelTools == {"claude-generated", "cursor"}

\* The selectedRepos prop.
SelectedRepos == <<"repo-a", "repo-b">>

DefaultRule ==
    [label |-> <<"ai-claude-code">>, aiTool |-> PR_LABEL_TO_TOOL["ai-claude-code"],
     enabled |-> TRUE, isDefault |-> TRUE]

\* The tables the panel starts from: the default one, or a stored one with a
\* rule the user added earlier.
InitialLabels ==
    { <<DefaultRule>>,
      <<DefaultRule, [label |-> <<"ai-windsurf">>, aiTool |-> "cursor",
                      enabled |-> TRUE, isDefault |-> FALSE]>> }

InitLabels ==
    /\ phase = "labels"
    /\ labelConfig \in [labels : InitialLabels, labelScanRepos : {<<>>}]
    /\ newLabel = <<>>
    /\ newLabelTool = "claude-generated"
    /\ labelOp = NoLabelOp
    /\ dataAgain = NoData
    /\ dateRange = LastSevenDays
    /\ PoolIdle
    /\ allCommits = <<>>
    /\ aiCommitsWithTool = <<>>
    /\ globalToolBreakdown = emptyToolBreakdown
    /\ globalModelBreakdown = emptyModelBreakdown
    /\ seenPRs = {}
    /\ prResults = <<>>
    /\ data = NoData
    /\ message = NoMessage
    /\ detection = NoDetection
    /\ pctIn = NoCounts
    /\ pctOut = 0

\* The variables of the other specifications.
callVars == <<phase, allCommits, aiCommitsWithTool, globalToolBreakdown,
              globalModelBreakdown, seenPRs, prResults, data, message, detection,
              pctIn, pctOut, repositories, feeds, countInFlight, counts,
              totalCommitsEstimate, nextIndex, workerLoops, activeRepoNames,
              completedRepos, requested, fetchCalls, progress, prVars, dataAgain,
              dateRange>>

\* onChange of the input: setNewLabel(e.target.value)
SetNewLabel(text) ==
    /\ phase = "labels"
    /\ newLabel' = text
    /\ labelOp' = [op |-> "type", label |-> text]
    /\ UNCHANGED <<labelConfig, newLabelTool, callVars>>

\* onChange of the select: setNewLabelTool(e.target.value)
SetNewLabelTool(tool) ==
    /\ phase = "labels"
    /\ newLabelTool' = tool
    /\ labelOp' = [op |-> "tool", label |-> <<>>]
    /\ UNCHANGED <<labelConfig, newLabel, callVars>>

\* handleAddLabel (Add button, or Enter in the input)
handleAddLabel ==
    LET added == AddedLabels(labelConfig.labels, newLabel, newLabelTool) IN
    /\ phase = "labels"
    /\ labelConfig' = [labelConfig EXCEPT !.labels = added]
    /\ newLabel' = IF added # labelConfig.labels THEN <<>> ELSE newLabel
    /\ labelOp' = [op |-> "add", label |-> Trim(newLabel)]
    /\ UNCHANGED <<newLabelTool, callVars>>

\* handleToggleLabel, from the checkbox of a rendered entry
handleToggleLabel(label) ==
    /\ phase = "labels"
    /\ \E i \in DOMAIN labelConfig.labels : labelConfig.labels[i].label = label
    /\ labelConfig' = [labelConfig EXCEPT !.labels = ToggledLabels(@, label)]
    /\ labelOp' = [op |-> "toggle", label |-> label]
    /\ UNCHANGED <<newLabel, newLabelTool, callVars>>

\* handleRemoveLabel, from the remove button of a rendered entry
handleRemoveLabel(label) ==
    /\ phase = "labels"
    /\ \E i \in DOMAIN labelConfig.labels :
          /\ labelConfig.labels[i].label = label
          /\ Removable(labelConfig.labels[i])
    /\ labelConfig' = [labelConfig EXCEPT !.labels = RemovedLabels(@, label)]
    /\ labelOp' = [op |-> "remove", label |-> label]
    /\ UNCHANGED <<newLabel, newLabelTool, callVars>>

\* handleToggleScanRepo
handleToggleScanRepo(repoName) ==
    LET isSelected == \E k \in DOMAIN labelConfig.labelScanRepos :
                          labelConfig.labelScanRepos[k] = repoName
    IN
    /\ phase = "labels"
    /\ labelConfig' = [labelConfig EXCEPT !.labelScanRepos =
                          IF isSelected THEN SelectSeq(@, LAMBDA r : r # repoName)
                          ELSE Append(@, repoName)]
    /\ labelOp' = [op |-> "scan", label |-> <<>>]
    /\ UNCHANGED <<newLabel, newLabelTool, callVars>>

\* handleSelectAllRepos
handleSelectAllRepos ==
    /\ phase = "labels"
    /\ labelConfig' = [labelConfig EXCEPT !.labelScanRepos = SelectedRepos]
    /\ labelOp' = [op |-> "scan-all", label |-> <<>>]
    /\ UNCHANGED <<newLabel, newLabelTool, callVars>>

\* handleClearAllRepos
handleClearAllRepos ==
    /\ phase = "labels"
    /\ labelConfig' = [labelConfig EXCEPT !.labelScanRepos = <<>>]
    /\ labelOp' = [op |-> "scan-none", label |-> <<>>]
    /\ UNCHANGED <<newLabel, newLabelTool, callVars>>

\* The labels an entry can be rendered with.
RenderedLabels == {Trim(text) : text \in LabelTexts} \ {<<>>}

NextLabels ==
    \/ \E text \in LabelTexts : SetNewLabel(text)
    \/ \E tool \in LabelTools : SetNewLabelTool(tool)
    \/ handleAddLabel
    \/ \E label \in RenderedLabels : handleToggleLabel(label)
    \/ \E label \in RenderedLabels : handleRemoveLabel(label)
    \/ \E k \in DOMAIN SelectedRepos : handleToggleScanRepo(SelectedRepos[k])
    \/ handleSelectAllRepos
    \/ handleClearAllRepos

SpecLabels == InitLabels /\ [][NextLabels]_vars

(***************************************************************************)
(* Properties.                                                             *)
(***************************************************************************)
SumTools(b) ==
    b["claude-coauthor"] + b["claude-generated"] + b["copilot"] + b["cursor"]
    + b["codex"] + b["gemini"]

SumModels(b) == b["opus"] + b["sonnet"] + b["haiku"] + b["unknown"]

RECURSIVE SumField(_, _)
SumField(entries, field) ==
    IF entries = <<>> THEN 0
    ELSE Head(entries)[field] + SumField(Tail(entries), field)

Returned == phase = "done"

\* The commits fetched that detectAITool classifies / does not classify.
Detected(i) == detectAITool(allCommits[i].message).aiTool # Null

\* The entries of aiCommitsWithTool that refer to commit i.
AttributionsOf(i) == {k \in DOMAIN aiCommitsWithTool : aiCommitsWithTool[k].commit = i}

\* C1: in the returned LeaderboardData every leaderboard entry has the sum of
\* its claudeModelBreakdown equal to its claude-coauthor plus claude-generated
\* tool counters, whether the attribution came from a message or a PR label.
C1_ModelConservation ==
    Returned =>
        \A i \in DOMAIN data.leaderboard :
            LET e == data.leaderboard[i] IN
            SumModels(e.claudeModelBreakdown)
                = e.aiToolBreakdown["claude-coauthor"] + e.aiToolBreakdown["claude-generated"]

\* C2: in the returned LeaderboardData every leaderboard entry has the sum of
\* the counters of its aiToolBreakdown equal to its AI commit count.
C2_ToolConservation ==
    Returned =>
        \A i \in DOMAIN data.leaderboard :
            SumTools(data.leaderboard[i].aiToolBreakdown) = data.leaderboard[i].commits

\* C2 witness: an author with a message-detected and a PR-label AI commit.
C2_Witness ==
    /\ Returned
    /\ \E i \in DOMAIN data.leaderboard :
          LET d == data.leaderboard[i].commitDetails IN
          /\ data.leaderboard[i].commits >= 2
          /\ \E j \in DOMAIN d : d[j].aiTool = "codex"
          /\ \E j \in DOMAIN d : d[j].aiTool = "claude-coauthor"

\* C3: the entries' AI commit counts sum to aiCommits and their total commit
\* counts sum to totalCommits, also for feeds with null-login commits.
C3_GlobalRollUp ==
    Returned =>
        /\ SumField(data.leaderboard, "commits") = data.aiCommits
        /\ SumField(data.leaderboard, "totalCommits") = data.totalCommits

\* C4: a commit that detectAITool classifies is counted exactly once, under
\* the tool and model of the message, whatever label results carry its SHA.
C4_LabelPrecedence ==
    Returned =>
        \A i \in DOMAIN allCommits :
            Detected(i) =>
                /\ Cardinality(AttributionsOf(i)) = 1
                /\ \A k \in AttributionsOf(i) :
                      /\ aiCommitsWithTool[k].aiTool
                            = detectAITool(allCommits[i].message).aiTool
                      /\ aiCommitsWithTool[k].claudeModel
                            = detectAITool(allCommits[i].message).claudeModel

\* C4 witness: a label result names another tool for the SHA of a commit the
\* message detection classified, and the call has returned with the results.
C4_Witness ==
    /\ Returned
    /\ \E i \in DOMAIN allCommits, k \in DOMAIN prResults :
          /\ Detected(i)
          /\ prResults[k].sha = allCommits[i].sha
          /\ prResults[k].repo = allCommits[i].repository
          /\ prResults[k].aiTool # detectAITool(allCommits[i].message).aiTool

\* C5: a fetched commit that detectAITool does not classify and that is the
\* merge commit of a labeled pull request (of its repository) is counted as
\* AI-attributed with the tool of such a label.
C5_LabelFallback ==
    Returned =>
        \A i \in DOMAIN allCommits :
            LET matching == {k \in DOMAIN prResults :
                                /\ prResults[k].sha = allCommits[i].sha
                                /\ prResults[k].repo = allCommits[i].repository}
            IN  (~Detected(i) /\ matching # {}) =>
                    \E a \in AttributionsOf(i), k \in matching :
                        aiCommitsWithTool[a].aiTool = prResults[k].aiTool

\* C8: the leaderboard has exactly one entry per non-empty login of a fetched
\* commit, with totalCommits the number of fetched commits of that login, and
\* no entry for a null or empty login.
C8_OneEntryPerAuthor ==
    Returned =>
        LET lb == data.leaderboard
            logins == {allCommits[i].login : i \in DOMAIN allCommits} \ {Null, ""}
        IN  /\ {lb[i].username : i \in DOMAIN lb} = logins
            /\ Len(lb) = Cardinality(logins)
            /\ \A i \in DOMAIN lb :
                  lb[i].totalCommits
                      = Cardinality({j \in DOMAIN allCommits :
                                        allCommits[j].login = lb[i].username})

\* C8 witness: an author without AI commits whose commits come from two
\* repositories, next to a commit without login.
C8_Witness ==
    /\ Returned
    /\ \E j \in DOMAIN allCommits : allCommits[j].login = Null
    /\ \E i \in DOMAIN data.leaderboard :
          LET e == data.leaderboard[i] IN
          /\ e.commits = 0
          /\ e.totalCommits = 2
          /\ \E j, k \in DOMAIN allCommits :
                /\ allCommits[j].login = e.username
                /\ allCommits[k].login = e.username
                /\ allCommits[j].repository # allCommits[k].repository

\* C9: the leaderboard is sorted by AI commits descending, ties by total
\* commits descending, and the entry at position i has rank i.
C9_SortedAndRanked ==
    Returned =>
        LET lb == data.leaderboard IN
        /\ \A i \in DOMAIN lb : lb[i].rank = i
        /\ \A i, j \in DOMAIN lb :
              i < j =>
                  \/ lb[i].commits > lb[j].commits
                  \/ /\ lb[i].commits = lb[j].commits
                     /\ lb[i].totalCommits >= lb[j].totalCommits

\* C9 witness: two authors tie on AI commits and the tie-break puts the one
\* seen later first.
C9_Witness ==
    /\ Returned
    /\ Len(data.leaderboard) = 2
    /\ data.leaderboard[1].username = "bob"
    /\ data.leaderboard[1].commits = data.leaderboard[2].commits
    /\ data.leaderboard[1].commits > 0
    /\ data.leaderboard[1].totalCommits > data.leaderboard[2].totalCommits

(***************************************************************************)
(* Properties of detectAITool (SpecDetect).                                *)
(***************************************************************************)
Classified == phase = "classified"

\* The trailers of the message that are Claude co-author trailers.
IsClaudeTrailer(t) == LowerTok(t.name) = "claude" /\ LowerTok(t.domain) = "@anthropic.com>"

ClaudeTrailers == {i \in DOMAIN message.trailers : IsClaudeTrailer(message.trailers[i])}

CopilotTrailers == {i \in DOMAIN message.trailers : message.trailers[i].name = "Copilot"}

\* The rules in their order, and the first one that matches.
RuleOrder == <<"claude-coauthor", "claude-generated", "copilot", "cursor">>

RuleMatches(rule, m) ==
    CASE rule = "claude-coauthor"  -> claudeCoAuthorRegex(m)
      [] rule = "claude-generated" -> claudeGeneratedFooter(m)
      [] rule = "copilot"          -> copilotCoAuthorRegex(m)
      [] rule = "cursor"           -> cursorCoAuthorRegex(m)

FirstMatch(m) ==
    IF \E r \in DOMAIN RuleOrder : RuleMatches(RuleOrder[r], m)
        THEN RuleOrder[CHOOSE r \in DOMAIN RuleOrder :
                          /\ RuleMatches(RuleOrder[r], m)
                          /\ \A q \in 1..(r - 1) : ~RuleMatches(RuleOrder[q], m)]
    ELSE Null

\* C6: detectAITool returns the tool of the first rule that matches in the
\* order Claude co-author, Claude-generated, Copilot, Cursor; a message with a
\* Claude and a Copilot co-author trailer is claude-coauthor.
C6_DetectorPriority ==
    Classified =>
        /\ detection.aiTool = FirstMatch(MessageText(message))
        /\ (ClaudeTrailers # {} /\ CopilotTrailers # {}) =>
              detection.aiTool = "claude-coauthor"

\* C6 witness: a Copilot trailer before a Claude trailer, in a message that
\* also carries the Claude Code footer.
C6_Witness ==
    /\ Classified
    /\ claudeGeneratedFooter(message.body)
    /\ \E i \in CopilotTrailers, j \in ClaudeTrailers : i < j
    /\ detection.aiTool = "claude-coauthor"

\* The model a trailer names between "Claude" and the e-mail address.
TrailerModel(t) ==
    LET names == {LowerTok(t.text[i]) : i \in DOMAIN t.text} IN
    IF "opus" \in names THEN "opus"
    ELSE IF "sonnet" \in names THEN "sonnet"
    ELSE IF "haiku" \in names THEN "haiku"
    ELSE "unknown"

\* C7: for a message with a Claude co-author trailer the model is the one
\* named in that trailer between "Claude" and the e-mail address, unknown if
\* none is; text elsewhere in the message has no influence.
C7_ModelFromTrailer ==
    (Classified /\ detection.aiTool = "claude-coauthor") =>
        \E i \in ClaudeTrailers :
            detection.claudeModel = TrailerModel(message.trailers[i])

(***************************************************************************)
(* Property of the aiPercentage expression (SpecPct).                      *)
(***************************************************************************)
\* C10: aiPercentage is round(100 * commits / totalCommits), halves rounded
\* up.
C10_Percentage ==
    phase = "computed" => pctOut = RoundHalfUp(pctIn.aiCount, pctIn.totalCommits)

(***************************************************************************)
(* Properties of the call seen from its requests (SpecPool).               *)
(***************************************************************************)
\* The workerLoops that have a repository, i.e. a page request in flight.
BusyWorkers == {w \in DOMAIN workerLoops : workerLoops[w].item # 0}

\* The requests sent and not yet answered.
InFlight == countInFlight + Cardinality(BusyWorkers)

\* C11: a call with an empty repository list returns totalCommits 0,
\* aiCommits 0, activeUsers 0, an empty leaderboard and counters that are all
\* 0, and makes no fetch request and emits no progress event.
C11_EmptyRepositories ==
    Len(repositories) = 0 =>
        /\ phase \in {"start", "done"}
        /\ fetchCalls = 0
        /\ InFlight = 0
        /\ progress = <<>>
        /\ phase = "done" =>
              /\ data.returned
              /\ data.totalCommits = 0
              /\ data.aiCommits = 0
              /\ data.activeUsers = 0
              /\ data.leaderboard = <<>>
              /\ \A t \in AITools : data.aiToolBreakdown[t] = 0
              /\ \A m \in ClaudeModels : data.claudeModelBreakdown[m] = 0

\* C11 witness: the call with the empty list has returned.
C11_Witness == Len(repositories) = 0 /\ phase = "done"

\* C12: the repositories started and not finished are never more than
\* min(3, number of repositories): as many workerLoops hold a repository, and
\* a repository beyond the first ones is started by a worker that finished.
C12_PoolCap ==
    LET cap == Min(3, Len(repositories)) IN
    /\ Cardinality(BusyWorkers) <= cap
    /\ Cardinality(activeRepoNames) <= cap
    /\ phase \in {"fetching", "fetching-prs", "done"} /\ Len(repositories) > 0 =>
          nextIndex - completedRepos = Cardinality(BusyWorkers)
    /\ nextIndex > cap => completedRepos >= nextIndex - cap

\* C12 witness: with more than three repositories, the fourth has been
\* started while three are being fetched.
C12_Witness ==
    /\ Len(repositories) > 3
    /\ nextIndex = 4
    /\ Cardinality(activeRepoNames) = 3
    /\ repositories[4] \in activeRepoNames

\* C13: at every moment of the call the requests in flight, of all phases
\* together, are at most 3.
C13_InFlightBound == InFlight <= 3

\* What paging through a feed must request and collect: pages from 1 on,
\* up to the first page that fails or carries no rel="next".
RECURSIVE PagesDue(_, _)
PagesDue(feed, page) ==
    LET response == ResponseOf(feed, page) IN
    IF response.status = "ok" /\ response.next /\ page < 500
        THEN <<page>> \o PagesDue(feed, page + 1)
    ELSE <<page>>

RECURSIVE CommitsDue(_, _)
CommitsDue(feed, page) ==
    LET response == ResponseOf(feed, page) IN
    IF response.status # "ok" THEN 0
    ELSE Len(response.commits)
            + (IF response.next /\ page < 500 THEN CommitsDue(feed, page + 1) ELSE 0)

RECURSIVE SumCommitsDue(_, _)
SumCommitsDue(fs, r) ==
    IF r > Len(fs) THEN 0 ELSE CommitsDue(fs[r], 1) + SumCommitsDue(fs, r + 1)

\* The repositories with a page request that failed.
FailedRepos ==
    {r \in DOMAIN feeds :
        \E p \in DOMAIN feeds[r].pages : feeds[r].pages[p].status # "ok"}

\* C14: a failed page request ends the paging of its repository only: every
\* repository is paged to its end, the call returns, and totalCommits is the
\* number of commits of all successful page answers, those the failing
\* repository gave before the failure included.
C14_PageFailure ==
    (phase \in {"fetching-prs", "done"} /\ Len(repositories) > 0) =>
        /\ \A r \in DOMAIN feeds : requested[r] = PagesDue(feeds[r], 1)
        /\ completedRepos = Len(repositories)
        /\ Len(allCommits) = SumCommitsDue(feeds, 1)
        /\ phase = "done" =>
              data.returned /\ data.totalCommits = SumCommitsDue(feeds, 1)

\* C14 witness: the call has returned; a repository failed on its second
\* page after a first page with a commit, another failed on its first page,
\* and a repository started after them was fetched.
C14_Witness ==
    /\ phase = "done"
    /\ \E r, q, s \in DOMAIN feeds :
          /\ r < s /\ q < s
          /\ Len(feeds[r].pages) = 2 /\ feeds[r].pages[2].status = "error"
          /\ feeds[q].pages[1].status = "throw"
          /\ feeds[s].pages[1].status = "ok" /\ ~feeds[s].pages[1].next
          /\ \E i, j \in DOMAIN allCommits :
                /\ allCommits[i].repository = repositories[r]
                /\ allCommits[j].repository = repositories[s]
    /\ data.totalCommits >= 2

(***************************************************************************)
(* Properties of the PR phase (Spec).                                      *)
(***************************************************************************)
\* C15: when the lookup of a pull request fails, by a non-success response
\* or by a rejected fetch, the label results of the other pull requests
\* still become attributions: every result obtained whose merge commit was
\* fetched has that commit among the AI commits of the returned data.
C15_LookupFailure ==
    [][(phase = "fetching-prs" /\ phase' = "done") =>
          \A k \in DOMAIN prResults :
              (\E i \in DOMAIN allCommits : allCommits[i].sha = prResults[k].sha) =>
                  \E a \in DOMAIN aiCommitsWithTool' :
                      allCommits[aiCommitsWithTool'[a].commit].sha = prResults[k].sha]_vars

(***************************************************************************)
(* Properties of fetchAILabeledPRs seen from its requests (SpecPRs).       *)
(***************************************************************************)
\* The pull requests whose lookup is in flight.
LookupsInFlight ==
    {w \in DOMAIN workerLoops : workerLoops[w].item # 0}

KeyOfLoop(w) ==
    LET it == items[workerLoops[w].item] IN PRKey(repositories[it.repo], it.number)

\* C16: fetchAILabeledPRs holds at most one result per pull request
\* (repository, number), and at most one lookup of a pull request is made,
\* whatever searches return it and however the lookups interleave.
C16_OneResultPerPR ==
    /\ Len(resultKeys) = Len(prResults)
    /\ \A i, j \in DOMAIN resultKeys : i # j => resultKeys[i] # resultKeys[j]
    /\ \A v, w \in LookupsInFlight : v # w => KeyOfLoop(v) # KeyOfLoop(w)
    /\ \A w \in LookupsInFlight, i \in DOMAIN resultKeys : KeyOfLoop(w) # resultKeys[i]

\* C16 witness: a pull request found by the searches of two of its labels
\* has a result, next to the result of another pull request, after both
\* searches were made.
C16_Witness ==
    /\ Len(resultKeys) = 2
    /\ \E p \in DOMAIN pulls :
          /\ pulls[p].labels = <<"bug", "ai-codex-cli", "ai-claude-code">>
          /\ pulls[p].repo = 1
          /\ \E i \in DOMAIN resultKeys :
                resultKeys[i] = PRKey(repositories[1], pulls[p].number)
    /\ searchAt > 3

\* The pull request a result came from.
PullOfKey(prKey) ==
    CHOOSE p \in DOMAIN pulls : PRKey(repositories[pulls[p].repo], pulls[p].number) = prKey

\* The first label of the configured table that the pull request carries.
TableFirst(labels) ==
    LET carried == {l \in DOMAIN AI_PR_LABELS :
                        \E k \in DOMAIN labels : labels[k] = AI_PR_LABELS[l]}
    IN  AI_PR_LABELS[CHOOSE l \in carried : \A q \in carried : l <= q]

\* C17: the result of a pull request with several configured labels has the
\* tool of the first of them in the order of the label table, in whatever
\* order the pull request lists its labels.
C17_LabelTableOrder ==
    \A i \in DOMAIN resultKeys :
        i \in DOMAIN prResults =>
            prResults[i].aiTool
                = PR_LABEL_TO_TOOL[TableFirst(pulls[PullOfKey(resultKeys[i])].labels)]

\* The attributions that come from label results for a SHA: those of the
\* commits with the SHA that detectAITool does not classify.
LabelAttributions(sha) ==
    {a \in DOMAIN aiCommitsWithTool :
        /\ allCommits[aiCommitsWithTool[a].commit].sha = sha
        /\ ~Detected(aiCommitsWithTool[a].commit)}

FirstResultFor(sha) ==
    CHOOSE k \in DOMAIN prResults :
        /\ prResults[k].sha = sha
        /\ \A l \in DOMAIN prResults : prResults[l].sha = sha => k <= l

\* C18: of several label results with the same merge commit SHA the first
\* one fixes the tool: the SHA has at most one attribution from labels, and
\* it carries the tool of the first result.
C18_FirstResultWins ==
    Returned =>
        \A k \in DOMAIN prResults :
            /\ Cardinality(LabelAttributions(prResults[k].sha)) <= 1
            /\ \A a \in LabelAttributions(prResults[k].sha) :
                  aiCommitsWithTool[a].aiTool
                      = prResults[FirstResultFor(prResults[k].sha)].aiTool

\* C18 witness: two results with different tools for the SHA of a fetched
\* commit without AI marker, which has been attributed.
C18_Witness ==
    /\ Returned
    /\ \E k, l \in DOMAIN prResults :
          /\ k < l
          /\ prResults[k].sha = prResults[l].sha
          /\ prResults[k].aiTool # prResults[l].aiTool
          /\ LabelAttributions(prResults[k].sha) # {}

\* The page requests of every repository are 1, 2, 3, ... up to the limit,
\* and a page is requested only after the page before it answered with
\* success and the more-pages signal.
PagesInOrder ==
    \A r \in DOMAIN requested :
        \A j \in DOMAIN requested[r] :
            /\ requested[r][j] = j
            /\ j <= PageLimit
            /\ j > 1 => /\ ResponseOf(feeds[r], j - 1).status = "ok"
                        /\ ResponseOf(feeds[r], j - 1).next

AllRepositoriesCompleted ==
    /\ completedRepos = Len(repositories)
    /\ \A w \in DOMAIN workerLoops : workerLoops[w].item = 0

\* C19: per repository the pages are requested in strictly increasing order
\* from page 1, none twice, none after a response without the more-pages
\* signal, after a failed response or past the limit of 500 pages, and the
\* pagination of every repository ends.
C19_Pagination == []PagesInOrder /\ <>AllRepositoriesCompleted

\* C19 witness: a repository was paged up to the limit of 500 pages and
\* completed.
C19_Witness ==
    /\ AllRepositoriesCompleted
    /\ \E r \in DOMAIN requested :
          /\ requested[r][Len(requested[r])] = PageLimit
          /\ ResponseOf(feeds[r], PageLimit).next

\* The commits of a repository in page order, and of all repositories in
\* the order of the repositories argument: the arrival order when the
\* responses of a repository all come before those of the next one.
RECURSIVE RepoCommits(_, _, _, _)
RepoCommits(repos, fs, r, page) ==
    LET response == ResponseOf(fs[r], page) IN
    IF response.status # "ok" THEN <<>>
    ELSE CommitsWithRepo(repos, r, page, response)
            \o (IF HasMore(response, page) THEN RepoCommits(repos, fs, r, NextPage(page))
                ELSE <<>>)

RECURSIVE CommitsInRepositoryOrder(_, _, _)
CommitsInRepositoryOrder(repos, fs, r) ==
    IF r > Len(repos) THEN <<>>
    ELSE RepoCommits(repos, fs, r, 1) \o CommitsInRepositoryOrder(repos, fs, r + 1)

\* The LeaderboardData of the call when the commits arrive in that order.
DataInRepositoryOrder ==
    LET commits == CommitsInRepositoryOrder(repositories, feeds, 1)
        found == DetectionLoop(commits, 1, [ai |-> <<>>, tools |-> emptyToolBreakdown,
                                            models |-> emptyModelBreakdown])
    IN  LeaderboardData(commits, found.ai, found.tools, found.models)

\* Counts, breakdowns and rank of an author.
Standing(e) ==
    [rank |-> e.rank, username |-> e.username, commits |-> e.commits,
     totalCommits |-> e.totalCommits, aiPercentage |-> e.aiPercentage,
     aiToolBreakdown |-> e.aiToolBreakdown,
     claudeModelBreakdown |-> e.claudeModelBreakdown]

Standings(d) == {Standing(d.leaderboard[i]) : i \in DOMAIN d.leaderboard}

\* C20: the LeaderboardData returned (counts, breakdowns, rank of every
\* author) does not depend on the order in which the commits of the
\* repositories arrive: it is the one of the arrival in repository order.
C20_OrderIndependence ==
    (phase = "done" /\ Len(repositories) > 0) =>
        LET ref == DataInRepositoryOrder IN
        /\ data.totalCommits = ref.totalCommits
        /\ data.aiCommits = ref.aiCommits
        /\ data.aiToolBreakdown = ref.aiToolBreakdown
        /\ data.claudeModelBreakdown = ref.claudeModelBreakdown
        /\ data.activeUsers = ref.activeUsers
        /\ Standings(data) = Standings(ref)

NoRepositoryReachable ==
    /\ Len(repositories) > 0
    /\ \A r \in DOMAIN feeds : ResponseOf(feeds[r], 1).status # "ok"

\* C22: with a non-empty repository list of which no repository is
\* reachable, the call does not return a LeaderboardData (it fails).
C22_HardFailure == (phase = "done" /\ NoRepositoryReachable) => ~data.returned

\* C23: the count phase is advisory.  Whatever the count requests answer,
\* once they are answered the commit fetch has started; it pages through
\* every repository, and the LeaderboardData returned has the counts and
\* breakdowns of the page responses.  The estimate is null exactly when the
\* count was rejected, and the sum of the counts otherwise.
C23_CountAdvisory ==
    /\ (phase # "start" /\ countInFlight = 0) => phase # "counting"
    /\ phase \in {"fetching", "fetching-prs", "done"} =>
          /\ totalCommitsEstimate = NoEstimate <=> counts.rejected
          /\ ~counts.rejected => totalCommitsEstimate = counts.sum
    /\ (phase \in {"fetching-prs", "done"} /\ Len(repositories) > 0) =>
          \A r \in DOMAIN feeds : requested[r] = PagesDue(feeds[r], 1)
    /\ (phase = "done" /\ Len(repositories) > 0) =>
          LET ref == DataInRepositoryOrder IN
          /\ data.totalCommits = ref.totalCommits
          /\ data.aiCommits = ref.aiCommits
          /\ data.aiToolBreakdown = ref.aiToolBreakdown
          /\ data.claudeModelBreakdown = ref.claudeModelBreakdown
          /\ data.activeUsers = ref.activeUsers

\* C23 witness: a call has returned the commits of two repositories after
\* one count request was answered by a non-success response.
C23_Witness ==
    /\ phase = "done"
    /\ Len(repositories) = 2
    /\ data.totalCommits = 2
    /\ counts = [sum |-> 1, rejected |-> FALSE]

UniqueLabels(labels) ==
    \A i, j \in DOMAIN labels : labels[i].label = labels[j].label => i = j

\* C24: no two rules of the table have the same label, and handleAddLabel
\* with a text that is empty after trimming, or whose trimmed form is the
\* label of a rule, leaves the table as it is.
C24_LabelUniqueness ==
    /\ UniqueLabels(labelConfig.labels)
    /\ \A text \in LabelTexts, tool \in LabelTools :
          (\/ Trim(text) = <<>>
           \/ \E i \in DOMAIN labelConfig.labels :
                 labelConfig.labels[i].label = Trim(text))
              => AddedLabels(labelConfig.labels, text, tool) = labelConfig.labels

\* C24 witness: handleAddLabel ran on a text with white space around the
\* label of a rule added before, next to a rule that was toggled.
C24_Witness ==
    /\ labelOp = [op |-> "add", label |-> <<"ai-windsurf">>]
    /\ newLabel # Trim(newLabel)
    /\ Len(labelConfig.labels) = 3
    /\ \E i \in DOMAIN labelConfig.labels :
          /\ labelConfig.labels[i].label = Trim(newLabel)
          /\ ~labelConfig.labels[i].enabled

\* C25: a rule with isDefault = true stays in the table, with its label, its
\* tool and its isDefault flag, whatever handler runs; only its enabled flag
\* changes.
C25_DefaultRulesStay ==
    [][\A i \in DOMAIN labelConfig.labels :
          labelConfig.labels[i].isDefault =>
              \E j \in DOMAIN labelConfig'.labels :
                  /\ labelConfig'.labels[j].label = labelConfig.labels[i].label
                  /\ labelConfig'.labels[j].aiTool = labelConfig.labels[i].aiTool
                  /\ labelConfig'.labels[j].isDefault]_vars

\* C25 witness: a rule added by the user was removed, and the default rule
\* is in the table, disabled.
C25_Witness ==
    /\ labelOp = [op |-> "remove", label |-> <<"ai-devin">>]
    /\ \A i \in DOMAIN labelConfig.labels : labelConfig.labels[i].label # <<"ai-devin">>
    /\ \E i \in DOMAIN labelConfig.labels :
          /\ labelConfig.labels[i].isDefault
          /\ ~labelConfig.labels[i].enabled

\* C26: with an empty date window and a non-empty repository list the call
\* issues no commit request and returns the empty result.
C26_EmptyWindow ==
    (Len(repositories) > 0 /\ EmptyWindow(dateRange)) =>
        /\ fetchCalls = 0
        /\ \A r \in DOMAIN requested : requested[r] = <<>>
        /\ phase = "done" => data = EmptyLeaderboardData

\* The invocations of the worker for item i: each starts with the request of
\* page 1 of the repository.
Invocations(i) == Cardinality({j \in DOMAIN requested[i] : requested[i][j] = 1})

\* C27: runWithConcurrency invokes the worker once for each item taken and
\* for no other, no two workerLoops hold the same item, and when it has
\* resolved the worker has been invoked once for every item and every
\* invocation has completed.
C27_EachItemOnce ==
    /\ \A i \in DOMAIN requested :
          Invocations(i) = (IF i <= nextIndex THEN 1 ELSE 0)
    /\ \A v, w \in DOMAIN workerLoops :
          (workerLoops[v].item # 0 /\ workerLoops[v].item = workerLoops[w].item) => v = w
    /\ (phase \in {"fetching-prs", "done"} /\ Len(repositories) > 0) =>
          /\ \A i \in DOMAIN requested : Invocations(i) = 1
          /\ completedRepos = Len(repositories)

\* C27 witness: the pool has resolved after more items than workerLoops, one
\* of them over several pages.
C27_Witness ==
    /\ phase = "fetching-prs"
    /\ Len(repositories) > Concurrency
    /\ \E i \in DOMAIN requested : Len(requested[i]) > 1

\* C28: in the LeaderboardData returned each fetched commit is counted as
\* AI-attributed at most once, aiCommits is at most totalCommits, every entry
\* has commits at most totalCommits and an aiPercentage in 0..100.
C28_CountedOnce ==
    Returned =>
        /\ \A i \in DOMAIN allCommits : Cardinality(AttributionsOf(i)) <= 1
        /\ data.aiCommits <= data.totalCommits
        /\ \A k \in DOMAIN data.leaderboard :
              /\ data.leaderboard[k].commits <= data.leaderboard[k].totalCommits
              /\ data.leaderboard[k].aiPercentage \in 0..100

\* C28 witness: a commit that detectAITool classifies is also the merge
\* commit of a labeled pull request, and is counted once.
C28_Witness ==
    /\ Returned
    /\ \E i \in DOMAIN allCommits, k \in DOMAIN prResults :
          /\ Detected(i)
          /\ prResults[k].sha = allCommits[i].sha
          /\ Cardinality(AttributionsOf(i)) = 1

\* The place of a phase in the order of the progress events.
PhaseRank(ph) ==
    CASE ph = "counting" -> 1
      [] ph = "fetching" -> 2
      [] ph = "analyzing" -> 3
      [] ph = "fetching-prs" -> 4

Emitted(events, ph) == \E i \in DOMAIN events : events[i] = ph

\* C29: the progress events of a call come in the order counting, fetching,
\* analyzing, fetching-prs; the analyzing event is emitted only when
\* completedRepos has reached the number of repositories, no fetching event
\* follows it, and completedRepos never decreases and never exceeds the
\* number of repositories.
C29_ProgressOrder ==
    [][/\ \A i \in 1..(Len(progress') - 1) :
              PhaseRank(progress'[i]) <= PhaseRank(progress'[i + 1])
       /\ Emitted(progress', "analyzing") => completedRepos' = Len(repositories')
       /\ completedRepos <= completedRepos'
       /\ completedRepos' <= Len(repositories')]_vars

\* C29 witness: the analyzing event was emitted after fetching events of
\* more repositories than workerLoops.
C29_Witness ==
    /\ Emitted(progress, "analyzing")
    /\ Emitted(progress, "fetching-prs")
    /\ progress[1] = "counting"
    /\ completedRepos > Concurrency

\* C30: a PR-label attribution is applied only to a commit of the pull
\* request's own repository: every attributed commit that detectAITool does
\* not classify is the merge commit of a labeled pull request of the
\* repository the commit was fetched from, also when another selected
\* repository returned a commit with the same SHA.
C30_OwnRepository ==
    Returned =>
        \A a \in DOMAIN aiCommitsWithTool :
            LET i == aiCommitsWithTool[a].commit IN
            ~Detected(i) =>
                \E k \in DOMAIN prResults :
                    /\ prResults[k].sha = allCommits[i].sha
                    /\ prResults[k].aiTool = aiCommitsWithTool[a].aiTool
                    /\ prResults[k].repo = allCommits[i].repository

====
